---- MODULE Spec2Model ----
(***************************************************************************)
(* A model of the codecrafters-git client: the loose object store, the     *)
(* pkt-line codec, the delta reconstructor, the pack decoder, the checkout *)
(* and the clone orchestrator.  Buffers are sequences of bytes (0..255),   *)
(* offsets are 0-based as in the JavaScript source.                        *)
(***************************************************************************)
EXTENDS Integers, Sequences, FiniteSets, TLC

\* Body(v) with v computed once: the way the operators below name an
\* intermediate result that they use more than once
Let1(v, Body(_)) ==
    CHOOSE r \in { Body(x) : x \in {v} } : TRUE

(***************************************************************************)
(* Buffers and strings                                                     *)
(***************************************************************************)

\* buffer[i] for a 0-based index; an index past the end reads as undefined,
\* which every bit operation of the source turns into 0.
At(s, i) ==
    IF i >= 0 /\ i < Len(s) THEN s[i + 1] ELSE 0

\* Buffer.slice(a, b) / String.substring(a, b): 0-based, end exclusive, clamped.
Slice(s, a, b) ==
    LET lo == IF a < 0 THEN 0 ELSE IF a > Len(s) THEN Len(s) ELSE a
        hi == IF b < lo THEN lo ELSE IF b > Len(s) THEN Len(s) ELSE b
    IN  SubSeq(s, lo + 1, hi)

SliceFrom(s, a) ==
    Slice(s, a, Len(s))

RECURSIVE Concat(_)
\* Buffer.concat(list)
Concat(list) ==
    IF list = <<>> THEN <<>> ELSE Head(list) \o Concat(Tail(list))

\* s.startsWith(p) / buffer.indexOf(p) === 0
StartsWith(s, p) ==
    Len(s) >= Len(p) /\ SubSeq(s, 1, Len(p)) = p

\* buffer.indexOf(pattern, from): the first 0-based position >= from where the
\* pattern occurs, or -1
IndexOfSeq(s, p, from) ==
    LET hits == { i \in from .. (Len(s) - Len(p)) : SubSeq(s, i + 1, i + Len(p)) = p }
    IN  IF hits = {} THEN -1 ELSE CHOOSE i \in hits : \A j \in hits : i <= j

\* buffer.indexOf(byte, from)
IndexOf(s, b, from) ==
    IndexOfSeq(s, <<b>>, from)

IsDigit(c) ==
    c >= 48 /\ c <= 57

\* [0-9a-f]
IsLowerHex(c) ==
    IsDigit(c) \/ (c >= 97 /\ c <= 102)

\* /^[0-9a-f]{40}$/.test(s)
IsSha40(s) ==
    Len(s) = 40 /\ \A i \in 1 .. 40 : IsLowerHex(s[i])

\* the characters String.prototype.trim and the regex class \s remove (ASCII)
IsSpace(c) ==
    c \in {9, 10, 11, 12, 13, 32}

\* String.prototype.trim
Trim(s) ==
    LET keep == { i \in 1 .. Len(s) : ~IsSpace(s[i]) }
    IN  IF keep = {} THEN <<>>
        ELSE SubSeq(s, CHOOSE i \in keep : \A j \in keep : i <= j,
                       CHOOSE i \in keep : \A j \in keep : i >= j)

RECURSIVE Dec(_)
\* Number.prototype.toString(10), as in `${content.length}`
Dec(n) ==
    IF n < 10 THEN <<48 + n>> ELSE Dec(n \div 10) \o <<48 + (n % 10)>>

RECURSIVE DigitsValue(_, _)
DigitsValue(s, base) ==
    IF s = <<>> THEN 0
    ELSE LET c == s[Len(s)]
             v == IF IsDigit(c) THEN c - 48
                  ELSE IF c >= 97 THEN c - 87 ELSE c - 55
         IN  DigitsValue(SubSeq(s, 1, Len(s) - 1), base) * base + v

IsBaseDigit(c, base) ==
    \/ IsDigit(c)
    \/ base = 16 /\ ((c >= 97 /\ c <= 102) \/ (c >= 65 /\ c <= 70))

\* the 1-based position of the first character that is not white space
FirstNonSpace(s) ==
    LET nonsp == { i \in 1 .. Len(s) : ~IsSpace(s[i]) }
    IN  IF nonsp = {} THEN Len(s) + 1 ELSE CHOOSE i \in nonsp : \A j \in nonsp : i <= j

\* the longest run of digits from start on: no digit gives NaN
ParseDigits(s, base, start, neg) ==
    LET bad == { i \in start .. Len(s) : ~IsBaseDigit(s[i], base) }
    IN  Let1(IF bad = {} THEN Len(s) + 1 ELSE CHOOSE i \in bad : \A j \in bad : i <= j,
             LAMBDA stop :
                 IF stop <= start THEN [nan |-> TRUE, v |-> 0]
                 ELSE Let1(DigitsValue(SubSeq(s, start, stop - 1), base), LAMBDA mag :
                           [nan |-> FALSE, v |-> IF neg THEN 0 - mag ELSE mag]))

\* the sign and (base 16) the optional 0x at first
ParseSigned(s, base, first) ==
    LET neg == first <= Len(s) /\ s[first] = 45
        afterSign == IF first <= Len(s) /\ s[first] \in {43, 45} THEN first + 1 ELSE first
    IN  Let1(afterSign, LAMBDA a :
             ParseDigits(s, base,
                         IF base = 16 /\ a + 1 <= Len(s) /\ s[a] = 48 /\ s[a + 1] \in {120, 88}
                         THEN a + 2 ELSE a,
                         neg))

\* parseInt(s, base), base 10 or 16: [nan, v].  Leading white space is skipped,
\* then a sign, then (base 16) an optional 0x, then the longest run of digits;
\* no digit gives NaN.
ParseInt(s, base) ==
    Let1(FirstNonSpace(s), LAMBDA first : ParseSigned(s, base, first))

HexDigit(n) ==
    IF n < 10 THEN 48 + n ELSE 87 + n

RECURSIVE ToHex(_)
\* Buffer.toString('hex') / digest('hex')
ToHex(bytes) ==
    IF bytes = <<>> THEN <<>>
    ELSE <<HexDigit(Head(bytes) \div 16), HexDigit(Head(bytes) % 16)>> \o ToHex(Tail(bytes))

RECURSIVE FromHex(_)
\* Buffer.from(hex, 'hex')
FromHex(hex) ==
    IF Len(hex) < 2 THEN <<>>
    ELSE <<DigitsValue(SubSeq(hex, 1, 2), 16)>> \o FromHex(SubSeq(hex, 3, Len(hex)))

\* number.toString(16).padStart(4, '0')
Hex4(n) ==
    LET RECURSIVE H(_)
        H(k) == IF k < 16 THEN <<HexDigit(k)>> ELSE H(k \div 16) \o <<HexDigit(k % 16)>>
        d == H(n)
    IN  IF Len(d) >= 4 THEN d ELSE [i \in 1 .. (4 - Len(d)) |-> 48] \o d

\* the strings of the source, as bytes
StrCommit == <<99, 111, 109, 109, 105, 116>>
StrTree   == <<116, 114, 101, 101>>
StrBlob   == <<98, 108, 111, 98>>
StrTag    == <<116, 97, 103>>
StrOfsDelta == <<79, 70, 83>>
StrRefDelta == <<82, 69, 70>>
StrPACK   == <<80, 65, 67, 75>>
StrDotGit == <<46, 103, 105, 116>>
StrObjects == <<111, 98, 106, 101, 99, 116, 115>>
StrRefs   == <<114, 101, 102, 115>>
StrHEAD   == <<72, 69, 65, 68>>
StrRefPrefix == <<114, 101, 102, 58, 32>>
StrFlush  == <<48, 48, 48, 48>>
StrSymref == <<115, 121, 109, 114, 101, 102, 61>>
StrService == <<35, 32, 115, 101, 114, 118, 105, 99, 101, 61>>
StrERR    == <<69, 82, 82, 32>>
Str40000  == <<52, 48, 48, 48, 48>>
Str100644 == <<49, 48, 48, 54, 52, 52>>
Str100755 == <<49, 48, 48, 55, 53, 53>>
StrTreeSp == <<116, 114, 101, 101, 32>>
StrHeadInit == <<114, 101, 102, 58, 32, 114, 101, 102, 115, 47, 104, 101, 97, 100, 115, 47,
                 109, 97, 105, 110, 10>>

(***************************************************************************)
(* Library functions: crypto (SHA-1) and zlib                              *)
(***************************************************************************)

\* the term of byte i in a sum: (byte + 1) * (a * i * i + c * i + 1), 0 past hi
HashTerm(b, i, hi, a, c) ==
    IF i > hi THEN 0 ELSE (b[i] + 1) * ((a * i * i + c * i + 1) % 65521)

RECURSIVE HashSum(_, _, _, _, _, _)
\* the sum of the terms of the bytes lo .. hi modulo modulus, computed by
\* halving the range down to runs of six bytes
HashSum(b, lo, hi, a, c, modulus) ==
    IF lo > hi THEN 0
    ELSE IF hi - lo < 6
    THEN (HashTerm(b, lo, hi, a, c) + HashTerm(b, lo + 1, hi, a, c)
          + HashTerm(b, lo + 2, hi, a, c) + HashTerm(b, lo + 3, hi, a, c)
          + HashTerm(b, lo + 4, hi, a, c) + HashTerm(b, lo + 5, hi, a, c)) % modulus
    ELSE (HashSum(b, lo, (lo + hi) \div 2, a, c, modulus)
          + HashSum(b, ((lo + hi) \div 2) + 1, hi, a, c, modulus)) % modulus

\* the 20 bytes made of three sums and the length
HashBytes(h1, h2, h3, n) ==
    <<h1 % 256, (h1 \div 256) % 256, (h1 \div 65536) % 256,
      h2 % 256, (h2 \div 256) % 256, (h2 \div 65536) % 256,
      h3 % 256, (h3 \div 256) % 256, (h3 \div 65536) % 256>>
    \o [k \in 1 .. 11 |->
          (((h1 + k * (h2 % 4096)) % 256) + ((k * (h3 % 4096)) % 256) + n) % 256]

\* crypto.createHash('sha1').update(b).digest(): a 20-byte digest.  SHA-1 itself
\* is outside the repository; it is modelled by three position-weighted sums
\* spread over 20 bytes, which is collision free on the buffers the model builds.
Sha1(b) ==
    Let1(b, LAMBDA v :
         HashBytes(HashSum(v, 1, Len(v), 7, 31, 16777213),
                   HashSum(v, 1, Len(v), 11, 37, 16777199),
                   HashSum(v, 1, Len(v), 13, 41, 16777183), Len(v)))

\* digest('hex')
Sha1Hex(b) ==
    ToHex(Sha1(b))

\* zlib.deflateSync(data): a zlib stream.  The stream is modelled as the two
\* header bytes 78 9c, the length of the data in two bytes, and the data (a
\* stored block).
Deflate(data) ==
    <<120, 156, Len(data) \div 256, Len(data) % 256>> \o data

\* The inflater on a buffer that starts with a zlib stream and may go on after
\* it: the data, the number of input bytes the engine consumed (bytesRead), or
\* an error when the buffer does not start with a complete stream.
Inflate(buf) ==
    Let1(buf, LAMBDA b :
         IF Len(b) >= 4 /\ b[1] = 120 /\ b[2] = 156 /\ Len(b) >= 4 + b[3] * 256 + b[4]
         THEN [ok |-> TRUE, data |-> SubSeq(b, 5, 4 + b[3] * 256 + b[4]),
               bytesRead |-> 4 + b[3] * 256 + b[4]]
         ELSE [ok |-> FALSE, data |-> <<>>,
               bytesRead |-> IF Len(b) >= 2 /\ b[1] = 120 /\ b[2] = 156 THEN Len(b) ELSE 0])

(***************************************************************************)
(* The file system: files is a function from a path (a sequence of names)  *)
(* to [data, mode]; dirs is the set of directories.  F is the record       *)
(* [files, dirs].                                                          *)
(***************************************************************************)

\* the mode of a file that was written and never chmod-ed
ModeDefault ==
    "default"

Exists(F, p) ==
    p \in DOMAIN F.files \/ p \in F.dirs

\* fs.mkdirSync(p, {recursive: true})
MkdirP(F, p) ==
    [F EXCEPT !.dirs = @ \cup { SubSeq(p, 1, k) : k \in 0 .. Len(p) }]

\* fs.writeFileSync(p, data): the file keeps its mode when it exists
WriteFile(F, p, data) ==
    Let1(F, LAMBDA G :
         [G EXCEPT !.files =
             [q \in DOMAIN G.files \cup {p} |->
                 IF q = p
                 THEN [data |-> data,
                       mode |-> IF p \in DOMAIN G.files THEN G.files[p].mode ELSE ModeDefault]
                 ELSE G.files[q]]])

\* fs.chmodSync(p, mode)
Chmod(F, p, mode) ==
    Let1(F, LAMBDA G :
         [G EXCEPT !.files = [q \in DOMAIN G.files |->
                                 IF q = p THEN [data |-> G.files[q].data, mode |-> mode]
                                 ELSE G.files[q]]])

(***************************************************************************)
(* The object store                                                        *)
(***************************************************************************)

\* path.join(process.cwd(), ".git", "objects", hash.substring(0, 2))
ObjectDir(cwd, hash) ==
    cwd \o <<StrDotGit, StrObjects, Slice(hash, 0, 2)>>

\* path.join(objectDir, hash.substring(2))
ObjectPath(cwd, hash) ==
    ObjectDir(cwd, hash) \o <<SliceFrom(hash, 2)>>

\* the framed form of an object: "<kind> <len>" NUL payload
Framed(type, content) ==
    type \o <<32>> \o Dec(Len(content)) \o <<0>> \o content

\* a write that puts the uncompressed bytes over a file that is there
WriteOverExisting(F, cwd, store, hash) ==
    [F |-> WriteFile(IF ~Exists(F, ObjectDir(cwd, hash))
                     THEN MkdirP(F, ObjectDir(cwd, hash)) ELSE F,
                     ObjectPath(cwd, hash),
                     IF Exists(F, ObjectPath(cwd, hash)) THEN store ELSE Deflate(store)),
     hash |-> hash]

\* the write of the compressed object unless its file exists (writeGitObject)
WriteIfAbsent(F, cwd, store, hash) ==
    IF ~Exists(F, ObjectPath(cwd, hash))
    THEN [F |-> WriteFile(IF ~Exists(F, ObjectDir(cwd, hash))
                          THEN MkdirP(F, ObjectDir(cwd, hash)) ELSE F,
                          ObjectPath(cwd, hash), Deflate(store)),
          hash |-> hash]
    ELSE [F |-> F, hash |-> hash]

\* writeGitObject(type, content): [F, hash]
WriteGitObject(F, cwd, type, content) ==
    Let1(type \o <<32>> \o Dec(Len(content)) \o <<0>> \o content, LAMBDA store :
         Let1(Sha1Hex(store), LAMBDA hash : WriteIfAbsent(F, cwd, store, hash)))

\* the write of the compressed object, the file there or not (writeBlobObject)
WriteAlways(F, cwd, store, hash) ==
    [ok |-> TRUE,
     F |-> WriteFile(IF ~Exists(F, ObjectDir(cwd, hash))
                     THEN MkdirP(F, ObjectDir(cwd, hash)) ELSE F,
                     ObjectPath(cwd, hash), Deflate(store)),
     hash |-> hash]

\* a blob stored under the hash of the file's bytes, the header left out
WriteBlobObjectUnframed(F, cwd, filePath) ==
    IF filePath \notin DOMAIN F.files
    THEN [ok |-> FALSE, F |-> F, hash |-> <<>>]
    ELSE WriteAlways(F, cwd, StrBlob \o <<32>> \o Dec(Len(F.files[filePath].data)) \o <<0>>
                             \o F.files[filePath].data,
                     Sha1Hex(F.files[filePath].data))

\* writeBlobObject(filePath): [ok, F, hash]; a missing file throws
WriteBlobObject(F, cwd, filePath) ==
    IF filePath \notin DOMAIN F.files
    THEN [ok |-> FALSE, F |-> F, hash |-> <<>>]
    ELSE Let1(StrBlob \o <<32>> \o Dec(Len(F.files[filePath].data)) \o <<0>>
              \o F.files[filePath].data, LAMBDA store :
              Let1(Sha1Hex(store), LAMBDA hash : WriteAlways(F, cwd, store, hash)))

\* header.split(" "): the first two fields
SplitHeader(header) ==
    Let1(IndexOf(header, 32, 0), LAMBDA sp1 :
         IF sp1 = -1 THEN [type |-> header, hasSize |-> FALSE, sizeStr |-> <<>>]
         ELSE Let1(IndexOf(header, 32, sp1 + 1), LAMBDA sp2 :
                   [type |-> Slice(header, 0, sp1), hasSize |-> TRUE,
                    sizeStr |-> IF sp2 = -1 THEN SliceFrom(header, sp1 + 1)
                                ELSE Slice(header, sp1 + 1, sp2)]))

\* the object of a header and a content: the size of the header is the length
\* of the content, or it throws
ParsedObject(parts, content) ==
    Let1(ParseInt(parts.sizeStr, 10), LAMBDA size :
         IF ~parts.hasSize \/ size.nan \/ size.v # Len(content)
         THEN [status |-> "error", type |-> <<>>, content |-> <<>>]
         ELSE [status |-> "ok", type |-> parts.type, content |-> content])

\* the decompressed file split at its first NUL
SplitObject(decompressedContent, nullByteIndex) ==
    IF nullByteIndex = -1 THEN [status |-> "error", type |-> <<>>, content |-> <<>>]
    ELSE Let1(SplitHeader(Slice(decompressedContent, 0, nullByteIndex)), LAMBDA parts :
              ParsedObject(parts, SliceFrom(decompressedContent, nullByteIndex + 1)))

\* the last index of a byte in a buffer, -1 when it is not there
LastIndexOf(b, c) ==
    IF \A i \in 1 .. Len(b) : b[i] # c THEN -1
    ELSE (CHOOSE i \in 1 .. Len(b) : b[i] = c /\ \A j \in i + 1 .. Len(b) : b[j] # c) - 1

\* a reader that takes the last NUL of the file as the end of the header
ReadObjectAtLastNul(F, cwd, sha) ==
    IF ObjectPath(cwd, sha) \notin DOMAIN F.files
    THEN [status |-> "null", type |-> <<>>, content |-> <<>>]
    ELSE Let1(Inflate(F.files[ObjectPath(cwd, sha)].data), LAMBDA inf :
              IF ~inf.ok THEN [status |-> "error", type |-> <<>>, content |-> <<>>]
              ELSE SplitObject(inf.data, LastIndexOf(inf.data, 0)))

\* readObject(sha): status "null" (no such file), "error" (thrown) or "ok" with
\* the object's type and content
ReadObject(F, cwd, sha) ==
    IF ObjectPath(cwd, sha) \notin DOMAIN F.files
    THEN [status |-> "null", type |-> <<>>, content |-> <<>>]
    ELSE Let1(Inflate(F.files[ObjectPath(cwd, sha)].data), LAMBDA inf :
              IF ~inf.ok THEN [status |-> "error", type |-> <<>>, content |-> <<>>]
              ELSE Let1(IndexOf(inf.data, 0, 0), LAMBDA nullByteIndex :
                        SplitObject(inf.data, nullByteIndex)))

\* an init that creates the branch ref file refs/heads/main as well
InitCommandWithBranch(F, cwd) ==
    LET F1 == MkdirP(F, cwd \o <<StrDotGit, StrRefs, <<104, 101, 97, 100, 115>> >>)
        F2 == WriteFile(F1, cwd \o <<StrDotGit, StrRefs, <<104, 101, 97, 100, 115>>,
                                     <<109, 97, 105, 110>> >>, <<10>>)
    IN  WriteFile(MkdirP(F2, cwd \o <<StrDotGit, StrObjects>>),
                  cwd \o <<StrDotGit, StrHEAD>>, StrHeadInit)

\* initCommand(): the .git layout and HEAD
InitCommand(F, cwd) ==
    LET F1 == MkdirP(F, cwd \o <<StrDotGit>>)
        F2 == MkdirP(F1, cwd \o <<StrDotGit, StrObjects>>)
        F3 == MkdirP(F2, cwd \o <<StrDotGit, StrRefs>>)
    IN  WriteFile(F3, cwd \o <<StrDotGit, StrHEAD>>, StrHeadInit)

\* fs.readdirSync(dirPath): the names in a directory
ReadDir(F, dirPath) ==
    { p[Len(dirPath) + 1] :
        p \in { q \in DOMAIN F.files \cup F.dirs :
                  Len(q) > Len(dirPath) /\ SubSeq(q, 1, Len(dirPath)) = dirPath } }

\* the letter a character is compared as at the first level of the collation
FoldCase(c) ==
    IF c >= 65 /\ c <= 90 THEN c + 32 ELSE c

\* what a character is compared by: its letter, or whether it is upper case
CollationKey(c, upper) ==
    IF upper THEN (IF c >= 65 /\ c <= 90 THEN 1 ELSE 0) ELSE FoldCase(c)

RECURSIVE LexLess(_, _, _)
\* a before b, comparing the keys position by position, a prefix first
LexLess(a, b, upper) ==
    IF b = <<>> THEN FALSE
    ELSE IF a = <<>> THEN TRUE
    ELSE IF CollationKey(Head(a), upper) # CollationKey(Head(b), upper)
    THEN CollationKey(Head(a), upper) < CollationKey(Head(b), upper)
    ELSE LexLess(Tail(a), Tail(b), upper)

\* a.localeCompare(b) < 0 for names of ASCII letters and digits: the letters
\* compare without their case first, and lower case goes before upper case
\* when that leaves them equal
LocaleLess(a, b) ==
    \/ LexLess(a, b, FALSE)
    \/ ~LexLess(b, a, FALSE) /\ LexLess(a, b, TRUE)

\* the entry that sorts before all the others
FirstEntry(entries) ==
    CHOOSE e \in entries : \A o \in entries \ {e} : LocaleLess(e.name, o.name)

RECURSIVE SortEntries(_)
\* entriesData.sort((a, b) => a.name.localeCompare(b.name)) on a set of entries
\* with different names
SortEntries(entries) ==
    IF entries = {} THEN <<>>
    ELSE Let1(FirstEntry(entries), LAMBDA first :
              <<first>> \o SortEntries(entries \ {first}))

\* stats.mode & S_IXUSR
IsExecutable(mode) ==
    mode = 493

\* entriesData.push({mode, name, hashBytes})
TreeEntryData(mode, entryName, hashHex) ==
    [mode |-> mode, name |-> entryName, hashBytes |-> FromHex(hashHex)]

\* the bytes of the sorted entries: mode, space, name, NUL, the raw hash
TreeContentBuffer(sorted) ==
    Concat([i \in 1 .. Len(sorted) |->
              sorted[i].mode \o <<32>> \o sorted[i].name \o <<0>> \o sorted[i].hashBytes])

\* the tree object is hashed, deflated and written, whether it is there or not
WriteTreeObject(F, cwd, treeContentBuffer) ==
    Let1(StrTreeSp \o Dec(Len(treeContentBuffer)) \o <<0>> \o treeContentBuffer,
         LAMBDA treeObjectData :
         Let1(Sha1Hex(treeObjectData), LAMBDA treeHash :
              WriteAlways(F, cwd, treeObjectData, treeHash)))

RECURSIVE WriteTreeCommand(_, _, _)
RECURSIVE WriteTreeEntries(_, _, _, _, _)

\* one entry of the directory, then the names still to do
WriteTreeEntry(F, cwd, dirPath, entryName, rest, entriesData) ==
    IF entryName = StrDotGit
    THEN WriteTreeEntries(F, cwd, dirPath, rest, entriesData)
    ELSE IF (dirPath \o <<entryName>>) \in F.dirs
    THEN Let1(WriteTreeCommand(F, cwd, dirPath \o <<entryName>>), LAMBDA sub :
              WriteTreeEntries(sub.F, cwd, dirPath, rest,
                  entriesData \cup {TreeEntryData(Str40000, entryName, sub.hash)}))
    ELSE Let1(WriteBlobObject(F, cwd, dirPath \o <<entryName>>), LAMBDA w :
              WriteTreeEntries(w.F, cwd, dirPath, rest,
                  entriesData \cup
                    {TreeEntryData(IF IsExecutable(F.files[dirPath \o <<entryName>>].mode)
                                   THEN Str100755 ELSE Str100644, entryName, w.hash)}))

\* the for loop of writeTreeCommand over the names still to do: [F, entries]
WriteTreeEntries(F, cwd, dirPath, names, entriesData) ==
    IF names = {} THEN [F |-> F, entries |-> entriesData]
    ELSE Let1(CHOOSE n \in names : TRUE, LAMBDA entryName :
              WriteTreeEntry(F, cwd, dirPath, entryName, names \ {entryName}, entriesData))

\* writeTreeCommand(dirPath): [F, hash]
WriteTreeCommand(F, cwd, dirPath) ==
    Let1(WriteTreeEntries(F, cwd, dirPath, ReadDir(F, dirPath), {}), LAMBDA r :
         WriteTreeObject(r.F, cwd, TreeContentBuffer(SortEntries(r.entries))))

StrParent == <<112, 97, 114, 101, 110, 116, 32>>
StrAuthor == <<97, 117, 116, 104, 111, 114, 32>>
StrCommitter == <<99, 111, 109, 109, 105, 116, 116, 101, 114, 32>>
\* "Your Name <your.email@example.com> "
StrIdentity == <<89, 111, 117, 114, 32, 78, 97, 109, 101, 32, 60, 121, 111, 117, 114, 46, 101,
                 109, 97, 105, 108, 64, 101, 120, 97, 109, 112, 108, 101, 46, 99, 111, 109, 62,
                 32>>
\* " +0000": the process runs in UTC
StrTimezone == <<32, 43, 48, 48, 48, 48>>

\* commitTreeCommand(treeSha, parentSha, message) at the given time: [F, hash]
CommitTreeCommand(F, cwd, treeSha, parentSha, message, timestamp) ==
    LET commitContent ==
            StrTreeSp \o treeSha \o <<10>>
            \o StrParent \o parentSha \o <<10>>
            \o StrAuthor \o StrIdentity \o Dec(timestamp) \o StrTimezone \o <<10>>
            \o StrCommitter \o StrIdentity \o Dec(timestamp) \o StrTimezone \o <<10>>
            \o <<10>>
            \o message \o <<10>>
    IN  WriteGitObject(F, cwd, StrCommit, commitContent)

(***************************************************************************)
(* The delta reconstructor                                                 *)
(***************************************************************************)

Pow2(n) ==
    2 ^ n

\* The 32-bit integers of the bit operations are kept as the set of their one
\* bits (0 .. 31), so that shifts and ORs wrap as they do in JavaScript.
BitsOf(v) ==
    { k \in 0 .. 30 : (v \div Pow2(k)) % 2 = 1 }

\* an OR that forgets the shift
OrNoShift(acc, v, shift) ==
    acc \cup BitsOf(v)

\* acc | (v << shift): the shift count is taken modulo 32 and the bits pushed
\* past bit 31 are lost
OrShl(acc, v, shift) ==
    acc \cup { k + (shift % 32) : k \in { j \in BitsOf(v) : j + (shift % 32) <= 31 } }

RECURSIVE SumBits(_)
SumBits(bits) ==
    IF bits = {} THEN 0
    ELSE LET k == CHOOSE x \in bits : TRUE IN Pow2(k) + SumBits(bits \ {k})

\* the signed value of a 32-bit integer
Int32(bits) ==
    IF 31 \in bits THEN (SumBits(bits \ {31}) - Pow2(30)) - Pow2(30) ELSE SumBits(bits)

RECURSIVE DeltaSizeMore(_, _, _, _, _)
\* while (byte & 0x80) { EOF check; byte = deltaData[deltaOffset++];
\*                       size |= (byte & 0x7f) << shift; shift += 7; }
DeltaSizeMore(deltaData, deltaOffset, byte, size, shift) ==
    IF byte < 128 THEN [ok |-> TRUE, size |-> Int32(size), next |-> deltaOffset]
    ELSE IF deltaOffset >= Len(deltaData) THEN [ok |-> FALSE, size |-> 0, next |-> deltaOffset]
    ELSE LET b == At(deltaData, deltaOffset)
         IN  DeltaSizeMore(deltaData, deltaOffset + 1, b, OrShl(size, b % 128, shift),
                           shift + 7)

\* let byte = deltaData[deltaOffset++]; let size = byte & 0x7f; shift = 7; while ...
DeltaSize(deltaData, deltaOffset) ==
    LET byte == At(deltaData, deltaOffset)
    IN  DeltaSizeMore(deltaData, deltaOffset + 1, byte, BitsOf(byte % 128), 7)

RECURSIVE CopyField(_, _, _, _, _, _, _)
\* for (let i = 0; i < n; i++) { if (instruction & (1 << (i + first))) { EOF check;
\*   value |= deltaData[deltaOffset++] << currentShift; } currentShift += 8; }
CopyField(deltaData, deltaOffset, instruction, first, n, i, value) ==
    IF i >= n THEN [ok |-> TRUE, value |-> Int32(value), next |-> deltaOffset]
    ELSE IF (instruction \div Pow2(i + first)) % 2 = 1
    THEN IF deltaOffset >= Len(deltaData)
         THEN [ok |-> FALSE, value |-> 0, next |-> deltaOffset]
         ELSE CopyField(deltaData, deltaOffset + 1, instruction, first, n, i + 1,
                        OrShl(value, At(deltaData, deltaOffset), 8 * i))
    ELSE CopyField(deltaData, deltaOffset, instruction, first, n, i + 1, value)

DeltaFail ==
    [ok |-> FALSE, data |-> <<>>]

RECURSIVE DeltaLoop(_, _, _, _, _)
\* while (deltaOffset < deltaData.length) { copy or insert }, then the final
\* size check.  out is reconstructedContent[0 .. reconstructedOffset).
DeltaLoop(baseContent, deltaData, deltaOffset, targetSize, out) ==
    IF deltaOffset >= Len(deltaData)
    THEN IF Len(out) # targetSize THEN DeltaFail ELSE [ok |-> TRUE, data |-> out]
    ELSE Let1(At(deltaData, deltaOffset), LAMBDA instruction :
         IF instruction >= 128
         THEN Let1(CopyField(deltaData, deltaOffset + 1, instruction, 0, 4, 0, {}), LAMBDA o :
              IF ~o.ok THEN DeltaFail
              ELSE Let1(CopyField(deltaData, o.next, instruction, 4, 3, 0, {}), LAMBDA z :
              IF ~z.ok THEN DeltaFail
              ELSE Let1(IF z.value = 0 THEN 65536 ELSE z.value, LAMBDA copySize :
                   IF o.value + copySize > Len(baseContent) THEN DeltaFail
                   ELSE IF Len(out) + copySize > targetSize THEN DeltaFail
                   ELSE IF o.value < 0 THEN DeltaFail
                   ELSE DeltaLoop(baseContent, deltaData, z.next, targetSize,
                                  out \o Slice(baseContent, o.value, o.value + copySize)))))
         ELSE IF instruction = 0 THEN DeltaFail
         ELSE IF deltaOffset + 1 + instruction > Len(deltaData) THEN DeltaFail
         ELSE IF Len(out) + instruction > targetSize THEN DeltaFail
         ELSE DeltaLoop(baseContent, deltaData, deltaOffset + 1 + instruction, targetSize,
                        out \o Slice(deltaData, deltaOffset + 1, deltaOffset + 1 + instruction)))

\* applyDelta(baseContent, deltaData): [ok, data]; ok = FALSE when it throws
ApplyDelta(baseContent, deltaData) ==
    Let1(DeltaSize(deltaData, 0), LAMBDA src :
         IF ~src.ok THEN DeltaFail
         ELSE IF src.size # Len(baseContent) THEN DeltaFail
         ELSE IF src.next >= Len(deltaData) THEN DeltaFail
         ELSE Let1(DeltaSize(deltaData, src.next), LAMBDA tgt :
                   IF ~tgt.ok THEN DeltaFail
                   ELSE DeltaLoop(baseContent, deltaData, tgt.next, tgt.size, <<>>)))

(***************************************************************************)
(* The pkt-line codec                                                      *)
(***************************************************************************)

\* a line whose length is written in decimal
FormatPktLineDecimal(line) ==
    [i \in 1 .. (4 - Len(Dec(Len(line) + 4))) |-> 48] \o Dec(Len(line) + 4) \o line

\* formatPktLine(line)
FormatPktLine(line) ==
    Hex4(Len(line) + 4) \o line

\* formatFlushPkt()
FormatFlushPkt ==
    StrFlush

\* refs[name] = value
RefSet(refs, name, value) ==
    [n \in DOMAIN refs \cup {name} |-> IF n = name THEN value ELSE refs[n]]

\* the end of [^\s]+ from the 0-based position from on
TokenEnd(str, from) ==
    LET sp == { j \in from .. (Len(str) - 1) : IsSpace(At(str, j)) }
    IN  IF sp = {} THEN Len(str) ELSE CHOOSE j \in sp : \A k \in sp : j <= k

\* "symref=" at i, then [^:]+ up to a colon, then [^\s]+
SymrefAt(capabilities, i) ==
    /\ Slice(capabilities, i, i + 7) = StrSymref
    /\ Let1(IndexOf(capabilities, 58, i + 7), LAMBDA c :
            c > i + 7 /\ TokenEnd(capabilities, c + 1) > c + 1)

\* capabilities.match(/symref=([^:]+):([^\s]+)/): the leftmost match
SymrefMatch(capabilities) ==
    LET hits == { i \in 0 .. (Len(capabilities) - 1) : SymrefAt(capabilities, i) }
    IN  IF hits = {} THEN [found |-> FALSE, name |-> <<>>, target |-> <<>>]
        ELSE Let1(CHOOSE h \in hits : \A k \in hits : h <= k, LAMBDA i :
             Let1(IndexOf(capabilities, 58, i + 7), LAMBDA c :
                  [found |-> TRUE, name |-> Slice(capabilities, i + 7, c),
                   target |-> Slice(capabilities, c + 1, TokenEnd(capabilities, c + 1))]))

\* refs[name] = sha and, when the capabilities name a symref, refs[symref] too
FirstRefSet(refs, sha, name, symrefMatch) ==
    IF ~IsSha40(sha) THEN refs
    ELSE IF symrefMatch.found
    THEN RefSet(RefSet(refs, name, sha), symrefMatch.name, StrRefPrefix \o symrefMatch.target)
    ELSE RefSet(refs, name, sha)

\* the line "<sha> <name>" of the first record, with its capabilities
FirstRefParts(refs, firstPart, capabilities) ==
    Let1(IndexOf(firstPart, 32, 0), LAMBDA spaceIndex :
         IF spaceIndex = -1 THEN refs
         ELSE FirstRefSet(refs, Slice(firstPart, 0, spaceIndex),
                          SliceFrom(firstPart, spaceIndex + 1), SymrefMatch(capabilities)))

\* the body of `if (firstLine) { ... }`: the refs after the capabilities line
FirstRefLine(refs, lineStr) ==
    Let1(IndexOf(lineStr, 0, 0), LAMBDA nullIndex :
         FirstRefParts(refs,
                       IF nullIndex # -1 THEN Slice(lineStr, 0, nullIndex) ELSE lineStr,
                       IF nullIndex # -1 THEN SliceFrom(lineStr, nullIndex + 1) ELSE <<>>))

\* the body of the else branch: a "<sha> <name>" line.  The ERR test sits under
\* "no space in the line" and a line that starts with "ERR " has one, so it
\* never throws.
OtherRefLine(refs, lineStr) ==
    Let1(IndexOf(lineStr, 32, 0), LAMBDA spaceIndex :
         IF spaceIndex # -1 /\ IsSha40(Slice(lineStr, 0, spaceIndex))
         THEN RefSet(refs, SliceFrom(lineStr, spaceIndex + 1), Slice(lineStr, 0, spaceIndex))
         ELSE refs)

\* what the loop does with a record: the raw slice (data) and the trimmed
\* string it goes on with (lineStr)
PktRecord(firstLine, refs, lines, data, lineStr) ==
    [refs  |-> IF firstLine THEN FirstRefLine(refs, lineStr) ELSE OtherRefLine(refs, lineStr),
     lines |-> Append(lines, [data |-> data, lineStr |-> lineStr])]

RECURSIVE PktLoop(_, _, _, _, _)
\* the while loop of parsePktLine: [ok, refs, lines, end].  lines collects the
\* records the loop slices.  ok = FALSE when it throws.
PktLoop(buffer, offset, firstLine, refs, lines) ==
    IF offset < 0 \/ offset >= Len(buffer)
    THEN [ok |-> TRUE, refs |-> refs, lines |-> lines, end |-> offset]
    ELSE Let1(Slice(buffer, offset, offset + 4), LAMBDA lengthHex :
         Let1(ParseInt(lengthHex, 16), LAMBDA length :
             IF lengthHex = StrFlush \/ (~length.nan /\ length.v = 0)
             THEN PktLoop(buffer, offset + 4, firstLine, refs, lines)
             ELSE IF ~length.nan /\ offset + length.v > Len(buffer)
             THEN [ok |-> FALSE, refs |-> refs, lines |-> lines, end |-> offset]
             ELSE Let1(IF length.nan THEN <<>>
                       ELSE Slice(buffer, offset + 4, offset + length.v), LAMBDA data :
                  Let1(PktRecord(firstLine, refs, lines, data, Trim(data)), LAMBDA r :
                      \* offset += NaN ends the loop: NaN < buffer.length is false;
                      \* a negative length moves the offset back: the model stops
                      \* there and reports it as not terminating normally
                      IF length.nan \/ length.v < 0
                      THEN [ok |-> length.nan, refs |-> r.refs, lines |-> r.lines,
                            end |-> offset]
                      ELSE PktLoop(buffer, offset + length.v, FALSE, r.refs, r.lines)))))

EmptyRefs ==
    [n \in {} |-> <<>>]

\* parsePktLine(buffer): [ok, refs, lines]; ok = FALSE when it throws
ParsePktLine(buffer) ==
    PktLoop(buffer, 0, TRUE, EmptyRefs, <<>>)

\* the body of discoverRefs once the GET returned 200 with this body
DiscoverRefsBody(buffer) ==
    Let1(ParseInt(Slice(buffer, 0, 4), 16), LAMBDA firstLength :
         IF ~firstLength.nan /\ firstLength.v > 0
            /\ StartsWith(Slice(buffer, 4, firstLength.v), StrService)
         THEN ParsePktLine(SliceFrom(buffer, firstLength.v))
         ELSE ParsePktLine(buffer))

(***************************************************************************)
(* The pack decoder of clone.js                                            *)
(***************************************************************************)

\* packData.readUInt32BE(at)
ReadUInt32BE(packData, at) ==
    ((At(packData, at) * 256 + At(packData, at + 1)) * 256 + At(packData, at + 2)) * 256
    + At(packData, at + 3)

RECURSIVE PackSizeMore(_, _, _, _, _)
\* while (byte & 0x80) { if (offset >= packData.length - 20) throw ...;
\*                       byte = packData[offset++]; size |= (byte & 0x7f) << shift; shift += 7; }
PackSizeMore(packData, offset, byte, size, shift) ==
    IF byte < 128 THEN [ok |-> TRUE, size |-> Int32(size), offset |-> offset]
    ELSE IF offset >= Len(packData) - 20 THEN [ok |-> FALSE, size |-> 0, offset |-> offset]
    ELSE LET b == At(packData, offset)
         IN  PackSizeMore(packData, offset + 1, b, OrShl(size, b % 128, shift), shift + 7)

RECURSIVE OfsMore(_, _, _)
\* the OFS_DELTA offset bytes: while (negOffsetByte & 0x80) { EOF check; read }
OfsMore(packData, offset, byte) ==
    IF byte < 128 THEN [ok |-> TRUE, offset |-> offset]
    ELSE IF offset >= Len(packData) - 20 THEN [ok |-> FALSE, offset |-> offset]
    ELSE OfsMore(packData, offset + 1, At(packData, offset))

\* the object types of the switch
PackTypeStr(type) ==
    CASE type = 1 -> StrCommit
      [] type = 2 -> StrTree
      [] type = 3 -> StrBlob
      [] type = 4 -> StrTag
      [] type = 6 -> StrOfsDelta
      [] type = 7 -> StrRefDelta
      [] OTHER -> <<>>

\* the rest of the header after the type and size bytes sz: the OFS_DELTA offset
\* bytes, the REF_DELTA base sha, or nothing.  ok = FALSE when it throws.
PackObjectHeaderRest(packData, type, sz) ==
    LET base == [ok |-> sz.ok, type |-> type, objectTypeStr |-> PackTypeStr(type),
                 size |-> sz.size, isDelta |-> type \in {6, 7}, baseSha |-> <<>>,
                 offset |-> sz.offset]
    IN  IF ~sz.ok THEN [base EXCEPT !.isDelta = FALSE]
        ELSE CASE type \in {1, 2, 3, 4} -> base
               [] type = 6 ->
                    Let1(OfsMore(packData, sz.offset + 1, At(packData, sz.offset)), LAMBDA o :
                         [base EXCEPT !.ok = o.ok, !.offset = o.offset])
               [] type = 7 ->
                    IF sz.offset + 20 > Len(packData) - 20
                    THEN [base EXCEPT !.ok = FALSE]
                    ELSE [base EXCEPT !.baseSha = ToHex(Slice(packData, sz.offset, sz.offset + 20)),
                                      !.offset = sz.offset + 20]
               [] OTHER -> [base EXCEPT !.ok = FALSE]

\* the header of the object at initialOffset: the type and size bytes and the
\* switch on the type
PackObjectHeader(packData, initialOffset) ==
    Let1(At(packData, initialOffset), LAMBDA byte :
         Let1(PackSizeMore(packData, initialOffset + 1, byte, BitsOf(byte % 16), 4), LAMBDA sz :
              PackObjectHeaderRest(packData, (byte \div 16) % 8, sz)))

\* writtenObjects[sha] = type
WrittenSet(written, sha, type) ==
    [h \in DOMAIN written \cup {sha} |-> IF h = sha THEN type ELSE written[h]]

\* the object is skipped: the loop goes on at offset off
PackSkip(F, st, off) ==
    [F |-> F, st |-> [st EXCEPT !.offset = off, !.objectsProcessed = @ + 1]]

\* writeGitObject(type, content); writtenObjects[sha] = type; offset = next
PackStore(F, cwd, st, type, content, nextObjectOffset) ==
    Let1(WriteGitObject(F, cwd, type, content), LAMBDA w :
         [F |-> w.F,
          st |-> [st EXCEPT !.offset = nextObjectOffset,
                            !.objectsProcessed = @ + 1,
                            !.written = WrittenSet(@, w.hash, type)]])

\* the kind named by the pack entry's own header
DeltaObjectTypeOfHeader(baseObject, h) ==
    h.objectTypeStr

\* the kind a reconstructed object is stored with
DeltaObjectType(baseObject, h) ==
    baseObject.type

\* a decoder for which a REF_DELTA without its base ends the decoding
PackRefDeltaFatal(F, cwd, st, h, deltaData, nextObjectOffset) ==
    Let1(ReadObject(F, cwd, h.baseSha), LAMBDA baseObject :
         IF baseObject.status # "ok" THEN [F |-> F, st |-> [st EXCEPT !.stopped = TRUE]]
         ELSE Let1(ApplyDelta(baseObject.content, deltaData), LAMBDA d :
                   IF ~d.ok THEN PackSkip(F, st, nextObjectOffset)
                   ELSE PackStore(F, cwd, st, DeltaObjectType(baseObject, h), d.data,
                                  nextObjectOffset)))

\* a REF_DELTA whose data inflated to deltaData: the base is read from the
\* store, the delta applied, the result stored with the base's type
PackRefDelta(F, cwd, st, h, deltaData, nextObjectOffset) ==
    Let1(ReadObject(F, cwd, h.baseSha), LAMBDA baseObject :
         IF baseObject.status # "ok" THEN PackSkip(F, st, nextObjectOffset)
         ELSE Let1(ApplyDelta(baseObject.content, deltaData), LAMBDA d :
                   IF ~d.ok THEN PackSkip(F, st, nextObjectOffset)
                   ELSE PackStore(F, cwd, st, DeltaObjectType(baseObject, h), d.data,
                                  nextObjectOffset)))

\* the object whose header is h and whose compressed data inflated as inf
PackObjectBody(F, cwd, st, h, inf, nextObjectOffset) ==
    IF ~inf.ok THEN PackSkip(F, st, nextObjectOffset)
    ELSE IF ~h.isDelta
    THEN IF Len(inf.data) # h.size THEN PackSkip(F, st, nextObjectOffset)
         ELSE PackStore(F, cwd, st, h.objectTypeStr, inf.data, nextObjectOffset)
    ELSE IF h.type = 7 THEN PackRefDelta(F, cwd, st, h, inf.data, nextObjectOffset)
    ELSE PackSkip(F, st, nextObjectOffset)

\* the bytes the inflater consumed: inflate.bytesRead, or on an error
\* bytesRead || remainingCompressedData.length
ConsumedCompressedBytes(inf, remainingLength) ==
    IF inf.ok THEN inf.bytesRead
    ELSE IF inf.bytesRead # 0 THEN inf.bytesRead ELSE remainingLength

\* the object after its header h
PackObjectData(F, cwd, packData, numObjects, st, h) ==
    Let1(Slice(packData, h.offset, Len(packData) - 20), LAMBDA remainingCompressedData :
         IF ~h.ok THEN [F |-> F, st |-> [st EXCEPT !.stopped = TRUE]]
         ELSE IF h.offset >= Len(packData) - 20 /\ st.objectsProcessed < numObjects - 1
         THEN [F |-> F, st |-> [st EXCEPT !.stopped = TRUE]]
         ELSE IF Len(remainingCompressedData) = 0 /\ (h.size > 0 \/ h.isDelta)
         THEN PackSkip(F, st, h.offset)
         ELSE Let1(Inflate(remainingCompressedData), LAMBDA inf :
                   PackObjectBody(F, cwd, st, h, inf,
                                  h.offset + ConsumedCompressedBytes(inf,
                                                 Len(remainingCompressedData)))))

\* One iteration of the while loop of processPackfile (clone.js), entered with
\* objectsProcessed < numObjects and offset < packData.length - 20.
\* st = [offset, objectsProcessed, written, stopped]; the result is [F, st].
PackObjectStep(F, cwd, packData, numObjects, st) ==
    Let1(PackObjectHeader(packData, st.offset), LAMBDA h :
         PackObjectData(F, cwd, packData, numObjects, st, h))

\* the packfile is long enough for a header and a checksum (else it throws)
PackLongEnough(packData) ==
    Len(packData) >= 12 + 20

\* the loop condition of processPackfile
PackLoopRuns(packData, numObjects, st) ==
    /\ ~st.stopped
    /\ st.objectsProcessed < numObjects
    /\ st.offset < Len(packData) - 20

\* the state of the loop before its first iteration
PackInitState ==
    [offset |-> 12, objectsProcessed |-> 0, written |-> [h \in {} |-> <<>>],
     stopped |-> FALSE]

\* calculatedChecksum === expectedChecksum
PackChecksumOk(packData) ==
    Sha1Hex(Slice(packData, 0, Len(packData) - 20))
        = ToHex(SliceFrom(packData, Len(packData) - 20))

(***************************************************************************)
(* The pack decoder of repositoryUtils.js                                  *)
(***************************************************************************)

\* a REF_DELTA: the base is read from the store, the delta applied and the
\* result written with the base's type; a failure is logged and nothing written
UtilsRefDelta(F, cwd, st, h, deltaData, off) ==
    Let1(ReadObject(F, cwd, h.baseSha), LAMBDA baseObject :
         IF baseObject.status # "ok" THEN PackSkip(F, st, off)
         ELSE Let1(ApplyDelta(baseObject.content, deltaData), LAMBDA d :
                   IF ~d.ok THEN PackSkip(F, st, off)
                   ELSE PackStore(F, cwd, st, baseObject.type, d.data, off)))

\* the object of header h whose data inflated to inf; off is the offset after
\* the compressed bytes
UtilsObjectBody(F, cwd, st, h, inf, off) ==
    IF ~h.isDelta
    THEN IF Len(inf.data) # h.size /\ h.size > 0 THEN PackSkip(F, st, off)
         ELSE PackStore(F, cwd, st, h.objectTypeStr, inf.data, off)
    ELSE IF h.type = 7 THEN UtilsRefDelta(F, cwd, st, h, inf.data, off)
    ELSE PackSkip(F, st, off)

\* headerInfo.compressedDataSize: extractObjectHeader never sets it
UtilsCompressedDataSize ==
    0

\* One iteration of the while loop of processPackfile (repositoryUtils.js).
\* A header that cannot be read moves the offset on by one byte; an OFS_DELTA
\* and a body that does not inflate leave it after the header plus
\* compressedDataSize.
UtilsObjectStep(F, cwd, packData, numObjects, st) ==
    Let1(PackObjectHeader(packData, st.offset), LAMBDA h :
         IF ~h.ok THEN PackSkip(F, st, st.offset + 1)
         ELSE IF h.type = 6 THEN PackSkip(F, st, h.offset + UtilsCompressedDataSize)
         ELSE Let1(Inflate(Slice(packData, h.offset, Len(packData) - 20)), LAMBDA inf :
                   IF ~inf.ok THEN PackSkip(F, st, h.offset + UtilsCompressedDataSize)
                   ELSE UtilsObjectBody(F, cwd, st, h, inf, h.offset + inf.bytesRead)))

\* what processPackfile does with any checksum but the right one: it throws
PackReturnStrict(packData, st) ==
    [returned |-> PackChecksumOk(packData),
     written |-> IF PackChecksumOk(packData) THEN st.written ELSE PackInitState.written,
     checksumOk |-> PackChecksumOk(packData)]

\* the end of processPackfile: the checksum is compared, a mismatch is a
\* warning, writtenObjects is returned
PackReturn(packData, st) ==
    [returned |-> TRUE, written |-> st.written, checksumOk |-> PackChecksumOk(packData)]

(***************************************************************************)
(* requestPackfile: the pack in the side-band response                     *)
(***************************************************************************)

\* Buffer.slice(a, b) with the negative indices counted from the end
BufSlice(s, a, b) ==
    LET norm(x) == IF x < 0 THEN (IF Len(s) + x < 0 THEN 0 ELSE Len(s) + x)
                   ELSE IF x > Len(s) THEN Len(s) ELSE x
    IN  SubSeq(s, norm(a) + 1, norm(b))

\* packData after a band 1 packet with the payload dataSlice
SidebandData(packData, dataSlice) ==
    Let1(IndexOfSeq(dataSlice, StrPACK, 0), LAMBDA packIndexInData :
         IF packIndexInData # -1 THEN packData \o SliceFrom(dataSlice, packIndexInData)
         ELSE IF Len(packData) > 0 THEN packData \o dataSlice
         ELSE packData)

RECURSIVE SidebandLoop(_, _, _, _)
\* while (currentOffset < buffer.length) { ... } of the extraction.  seen is the
\* set of offsets the loop has been at: where the loop goes next depends on the
\* offset alone, so coming back to one of them means the loop never ends.
\* [hang, packData]
SidebandLoop(buffer, currentOffset, packData, seen) ==
    IF currentOffset >= Len(buffer) THEN [hang |-> FALSE, packData |-> packData]
    ELSE IF currentOffset \in seen THEN [hang |-> TRUE, packData |-> packData]
    ELSE Let1(BufSlice(buffer, currentOffset, currentOffset + 4), LAMBDA lengthHex :
         IF lengthHex = StrFlush
         THEN IF StartsWith(BufSlice(buffer, currentOffset + 4, Len(buffer)), StrPACK)
              THEN [hang |-> FALSE,
                    packData |-> packData \o BufSlice(buffer, currentOffset + 4, Len(buffer))]
              ELSE SidebandLoop(buffer, currentOffset + 4, packData,
                                seen \cup {currentOffset})
         ELSE Let1(ParseInt(lengthHex, 16), LAMBDA length :
              IF ~length.nan /\ (length.v = 0 \/ currentOffset + length.v > Len(buffer))
              THEN [hang |-> FALSE, packData |-> packData]
              ELSE Let1(At(buffer, currentOffset + 4), LAMBDA indicator :
                   IF indicator = 1
                   THEN Let1(SidebandData(packData,
                                 IF length.nan THEN <<>>
                                 ELSE BufSlice(buffer, currentOffset + 5,
                                               currentOffset + length.v)), LAMBDA packData1 :
                             \* currentOffset += NaN ends the loop
                             IF length.nan THEN [hang |-> FALSE, packData |-> packData1]
                             ELSE SidebandLoop(buffer, currentOffset + length.v, packData1,
                                               seen \cup {currentOffset}))
                   ELSE IF indicator \notin {2, 3}
                           /\ StartsWith(BufSlice(buffer, currentOffset, Len(buffer)), StrPACK)
                   THEN [hang |-> FALSE,
                         packData |-> packData \o BufSlice(buffer, currentOffset, Len(buffer))]
                   ELSE IF length.nan THEN [hang |-> FALSE, packData |-> packData]
                   ELSE SidebandLoop(buffer, currentOffset + length.v, packData,
                                     seen \cup {currentOffset}))))

RECURSIVE ErrorScanLoop(_, _, _)
\* the loop that collects the server's messages when 'PACK' is nowhere in the
\* response: TRUE when it never ends
ErrorScanLoop(buffer, offset, seen) ==
    IF offset >= Len(buffer) THEN FALSE
    ELSE IF offset \in seen THEN TRUE
    ELSE Let1(BufSlice(buffer, offset, offset + 4), LAMBDA lengthHex :
         IF lengthHex = StrFlush THEN FALSE
         ELSE Let1(ParseInt(lengthHex, 16), LAMBDA length :
                   IF length.nan THEN FALSE
                   ELSE ErrorScanLoop(buffer, offset + length.v, seen \cup {offset})))

\* the end of the extraction: resolve(packData) or reject
ExtractResult(r) ==
    IF r.hang THEN [status |-> "hang", packData |-> <<>>]
    ELSE IF Len(r.packData) = 0 \/ ~StartsWith(r.packData, StrPACK)
    THEN [status |-> "reject", packData |-> <<>>]
    ELSE [status |-> "ok", packData |-> r.packData]

\* res.on('end'): the body of the 200 response to the packfile request.
\* status "ok" (resolve(packData)), "reject" or "hang"
ExtractPack(buffer) ==
    IF IndexOfSeq(buffer, StrPACK, 0) = -1
    THEN [status |-> IF ErrorScanLoop(buffer, 0, {}) THEN "hang" ELSE "reject",
          packData |-> <<>>]
    ELSE Let1(SidebandLoop(buffer, 0, <<>>, {}), LAMBDA r : ExtractResult(r))

(***************************************************************************)
(* checkout (clone.js)                                                     *)
(***************************************************************************)

\* commitContent.match(/^tree ([0-9a-f]{40})$/m): the sha of the first match,
\* or <<>> when there is none
TreeMatch(commitContent) ==
    LET lineStart(i) == i = 0 \/ At(commitContent, i - 1) \in {10, 13}
        lineEnd(i)   == i = Len(commitContent) \/ At(commitContent, i) \in {10, 13}
        hits == { i \in 0 .. (Len(commitContent) - 45) :
                    /\ lineStart(i)
                    /\ Slice(commitContent, i, i + 5) = StrTreeSp
                    /\ IsSha40(Slice(commitContent, i + 5, i + 45))
                    /\ lineEnd(i + 45) }
    IN  IF hits = {} THEN <<>>
        ELSE LET i == CHOOSE h \in hits : \A k \in hits : h <= k
             IN  Slice(commitContent, i + 5, i + 45)

\* the mode checkoutTree gives the file of an entry: 0o755 or 0o644
FileMode(mode) ==
    IF mode = Str100755 THEN 493 ELSE 420

\* the blob of a file entry is written to entryPath when it is there and a blob
CheckoutFile(F, entryPath, mode, blobData) ==
    IF blobData.status = "ok" /\ blobData.type = StrBlob
    THEN Chmod(WriteFile(F, entryPath, blobData.content), entryPath, FileMode(mode))
    ELSE F

RECURSIVE CheckoutTree(_, _, _, _)
RECURSIVE CheckoutEntries(_, _, _, _, _)

\* the entry `mode name NUL sha` of a tree at currentPath, then the entries from
\* offset next on: [F, threw]
CheckoutEntry(F, cwd, treeContent, currentPath, mode, name, entrySha, next) ==
    IF mode = Str40000
    THEN Let1(CheckoutTree(IF ~Exists(F, currentPath \o <<name>>)
                           THEN MkdirP(F, currentPath \o <<name>>) ELSE F,
                           cwd, entrySha, currentPath \o <<name>>), LAMBDA sub :
              IF sub.threw THEN sub
              ELSE CheckoutEntries(sub.F, cwd, treeContent, next, currentPath))
    ELSE Let1(ReadObject(F, cwd, entrySha), LAMBDA blobData :
              IF blobData.status = "error" THEN [F |-> F, threw |-> TRUE]
              ELSE CheckoutEntries(CheckoutFile(F, currentPath \o <<name>>, mode, blobData),
                                   cwd, treeContent, next, currentPath))

\* the while loop of checkoutTree from offset on: [F, threw]
CheckoutEntries(F, cwd, treeContent, offset, currentPath) ==
    Let1(IndexOf(treeContent, 32, offset), LAMBDA spaceIndex :
    Let1(IndexOf(treeContent, 0, spaceIndex + 1), LAMBDA nullIndex :
         IF offset >= Len(treeContent) \/ spaceIndex = -1 \/ nullIndex = -1
            \/ Len(Slice(treeContent, nullIndex + 1, nullIndex + 1 + 20)) < 20
         THEN [F |-> F, threw |-> FALSE]
         ELSE CheckoutEntry(F, cwd, treeContent, currentPath,
                            Slice(treeContent, offset, spaceIndex),
                            Slice(treeContent, spaceIndex + 1, nullIndex),
                            ToHex(Slice(treeContent, nullIndex + 1, nullIndex + 1 + 20)),
                            nullIndex + 1 + 20)))

\* a checkoutTree for which a tree that is not in the store ends the checkout
CheckoutTreeStrict(F, cwd, treeSha, currentPath) ==
    Let1(ReadObject(F, cwd, treeSha), LAMBDA treeData :
         IF treeData.status # "ok" \/ treeData.type # StrTree THEN [F |-> F, threw |-> TRUE]
         ELSE CheckoutEntries(F, cwd, treeData.content, 0, currentPath))

\* checkoutTree(treeSha, currentPath): [F, threw]
CheckoutTree(F, cwd, treeSha, currentPath) ==
    Let1(ReadObject(F, cwd, treeSha), LAMBDA treeData :
         IF treeData.status = "error" THEN [F |-> F, threw |-> TRUE]
         ELSE IF treeData.status = "null" THEN [F |-> F, threw |-> FALSE]
         ELSE IF treeData.type # StrTree THEN [F |-> F, threw |-> TRUE]
         ELSE CheckoutEntries(F, cwd, treeData.content, 0, currentPath))

\* checkout(commitSha, "."): [F, threw]; the target directory is the working
\* directory, which exists
Checkout(F, cwd, commitSha) ==
    Let1(ReadObject(F, cwd, commitSha), LAMBDA commitData :
         IF commitData.status # "ok" \/ commitData.type # StrCommit
         THEN [F |-> F, threw |-> TRUE]
         ELSE Let1(TreeMatch(commitData.content), LAMBDA treeSha :
                   IF treeSha = <<>> THEN [F |-> F, threw |-> TRUE]
                   ELSE CheckoutTree(F, cwd, treeSha, cwd)))

(***************************************************************************)
(* The remote: a repository, its pack and what the server answers.  These  *)
(* are the inputs of the clone; they are built the way git builds them.    *)
(***************************************************************************)

\* the largest number of files in the remote's commit
MaxFiles ==
    2

\* the number of steps by which the contents of the files are rotated
MaxVariant ==
    2

\* the largest side-band packet payload the server sends when it splits the pack
ChunkSize ==
    48

\* the contents the remote's files are drawn from: "", "foo", "foobar", "xPACK\n"
SampleContents ==
    << <<>>, <<102, 111, 111>>, <<102, 111, 111, 98, 97, 114>>,
       <<120, 80, 65, 67, 75, 10>> >>

StrMain == <<114, 101, 102, 115, 47, 104, 101, 97, 100, 115, 47, 109, 97, 105, 110>>
StrSubdir == <<100>>
StrNAK  == <<78, 65, 75, 10>>
StrCaps == <<109, 117, 108, 116, 105, 95, 97, 99, 107>>
StrHeadCap == <<72, 69, 65, 68, 58>>
StrServiceLine == StrService \o <<103, 105, 116, 45, 117, 112, 108, 111, 97, 100, 45, 112, 97,
                                  99, 107, 10>>
StrMessage == <<10, 109, 10>>

\* the layouts of the remote's commit: n files, the even ones under the
\* directory d when nested, the odd ones executable when the variant is odd and
\* the even ones when it is even
Layouts ==
    [n : 0 .. MaxFiles, nested : BOOLEAN, variant : 0 .. MaxVariant]

\* file i of a layout: [dir, name, content, mode]
LayoutFile(L, i) ==
    [dir     |-> IF L.nested /\ i % 2 = 0 THEN <<StrSubdir>> ELSE <<>>,
     name    |-> <<96 + i>>,
     content |-> SampleContents[((L.variant + i - 1) % Len(SampleContents)) + 1],
     mode    |-> IF (i % 2) = (L.variant % 2) THEN Str100755 ELSE Str100644]

\* the identity of an object
ObjectId(type, content) ==
    Sha1Hex(Framed(type, content))

TreeEntry(mode, name, id) ==
    mode \o <<32>> \o name \o <<0>> \o FromHex(id)

RECURSIVE FileEntries(_, _, _)
\* the tree entries of the files i .. n of the layout that are in dir
FileEntries(L, dir, i) ==
    IF i > L.n THEN <<>>
    ELSE LET f == LayoutFile(L, i)
         IN  (IF f.dir = dir
              THEN TreeEntry(f.mode, f.name, ObjectId(StrBlob, f.content)) ELSE <<>>)
             \o FileEntries(L, dir, i + 1)

HasSubdir(L) ==
    \E i \in 1 .. L.n : LayoutFile(L, i).dir # <<>>

SubTreePayload(L) ==
    FileEntries(L, <<StrSubdir>>, 1)

RootTreePayload(L) ==
    FileEntries(L, <<>>, 1)
    \o (IF HasSubdir(L)
        THEN TreeEntry(Str40000, StrSubdir, ObjectId(StrTree, SubTreePayload(L))) ELSE <<>>)

CommitPayload(L) ==
    StrTreeSp \o ObjectId(StrTree, RootTreePayload(L)) \o StrMessage

HeadCommit(L) ==
    ObjectId(StrCommit, CommitPayload(L))

\* the objects of the layout in the order of the pack: [type, content]
LayoutObjects(L) ==
    <<[type |-> StrCommit, content |-> CommitPayload(L)],
      [type |-> StrTree, content |-> RootTreePayload(L)]>>
    \o (IF HasSubdir(L) THEN <<[type |-> StrTree, content |-> SubTreePayload(L)]>> ELSE <<>>)
    \o [i \in 1 .. L.n |-> [type |-> StrBlob, content |-> LayoutFile(L, i).content]]

\* the files the commit describes: path below the clone directory |-> [data, mode]
ExpectedFiles(L) ==
    [p \in { LayoutFile(L, i).dir \o <<LayoutFile(L, i).name>> : i \in 1 .. L.n } |->
        LET i == CHOOSE j \in 1 .. L.n : LayoutFile(L, j).dir \o <<LayoutFile(L, j).name>> = p
        IN  [data |-> LayoutFile(L, i).content,
             mode |-> IF LayoutFile(L, i).mode = Str100755 THEN 493 ELSE 420]]

RECURSIVE EncVarint(_)
\* a size in 7-bit groups, low group first, the high bit set on all but the last
EncVarint(n) ==
    IF n < 128 THEN <<n>> ELSE <<128 + (n % 128)>> \o EncVarint(n \div 128)

\* the type and size bytes of a pack entry
EncObjectHeader(type, size) ==
    IF size < 16 THEN <<type * 16 + size>>
    ELSE <<128 + type * 16 + (size % 16)>> \o EncVarint(size \div 16)

PackTypeNum(type) ==
    CASE type = StrCommit -> 1
      [] type = StrTree -> 2
      [] type = StrBlob -> 3
      [] OTHER -> 4

\* a non-delta pack entry
PackEntry(obj) ==
    EncObjectHeader(PackTypeNum(obj.type), Len(obj.content)) \o Deflate(obj.content)

\* a REF_DELTA pack entry
RefDeltaEntry(baseId, delta) ==
    EncObjectHeader(7, Len(delta)) \o FromHex(baseId) \o Deflate(delta)

\* the longest common prefix of two buffers
CommonPrefix(a, b) ==
    LET m == IF Len(a) < Len(b) THEN Len(a) ELSE Len(b)
        same == { k \in 0 .. m : SubSeq(a, 1, k) = SubSeq(b, 1, k) }
    IN  CHOOSE k \in same : \A j \in same : j <= k

RECURSIVE EncInserts(_)
\* insert instructions of at most 127 bytes each
EncInserts(bytes) ==
    IF bytes = <<>> THEN <<>>
    ELSE IF Len(bytes) <= 127 THEN <<Len(bytes)>> \o bytes
    ELSE <<127>> \o SubSeq(bytes, 1, 127) \o EncInserts(SubSeq(bytes, 128, Len(bytes)))

\* a copy instruction for offset and size below 256
EncCopy(offset, size) ==
    IF offset = 0 THEN <<128 + 16, size>> ELSE <<128 + 16 + 1, offset, size>>

\* the delta that makes target from base: copy their common prefix, insert the rest
DeltaFor(base, target) ==
    LET k == CommonPrefix(base, target)
    IN  EncVarint(Len(base)) \o EncVarint(Len(target))
        \o (IF k > 0 THEN EncCopy(0, k) ELSE <<>>)
        \o EncInserts(SubSeq(target, k + 1, Len(target)))

UInt32BE(n) ==
    <<(n \div 16777216) % 256, (n \div 65536) % 256, (n \div 256) % 256, n % 256>>

\* a version 2 pack of the given entries with its trailing checksum
BuildPack(entries) ==
    LET body == StrPACK \o UInt32BE(2) \o UInt32BE(Len(entries)) \o Concat(entries)
    IN  body \o Sha1(body)

\* the bases the server deltifies against: blob 'foo', the empty tree and a
\* commit of the empty tree
DeltaBase(type) ==
    CASE type = StrBlob -> [type |-> StrBlob, content |-> SampleContents[2]]
      [] type = StrTree -> [type |-> StrTree, content |-> <<>>]
      [] OTHER -> [type |-> StrCommit,
                   content |-> StrTreeSp \o ObjectId(StrTree, <<>>) \o StrMessage]

\* the entries of the pack of a layout.  deltas = "none": every object whole;
\* "blobs": the blobs as REF_DELTA against the blob 'foo' sent first; "all":
\* every object as REF_DELTA against the base of its kind sent first
PackEntries(L, deltas) ==
    LET objs == LayoutObjects(L)
        asDelta(o) == deltas = "all" \/ (deltas = "blobs" /\ o.type = StrBlob)
        kinds == { objs[i].type : i \in { j \in 1 .. Len(objs) : asDelta(objs[j]) } }
        bases == (IF StrCommit \in kinds THEN <<PackEntry(DeltaBase(StrCommit))>> ELSE <<>>)
                 \o (IF StrTree \in kinds THEN <<PackEntry(DeltaBase(StrTree))>> ELSE <<>>)
                 \o (IF StrBlob \in kinds THEN <<PackEntry(DeltaBase(StrBlob))>> ELSE <<>>)
    IN  bases \o [i \in 1 .. Len(objs) |->
                    IF asDelta(objs[i])
                    THEN LET b == DeltaBase(objs[i].type)
                         IN  RefDeltaEntry(ObjectId(b.type, b.content),
                                           DeltaFor(b.content, objs[i].content))
                    ELSE PackEntry(objs[i])]

RECURSIVE SidebandChunks(_, _)
\* band 1 packets of at most size bytes of the pack each
SidebandChunks(pack, size) ==
    IF pack = <<>> THEN <<>>
    ELSE IF Len(pack) <= size THEN FormatPktLine(<<1>> \o pack)
    ELSE FormatPktLine(<<1>> \o SubSeq(pack, 1, size))
         \o SidebandChunks(SubSeq(pack, size + 1, Len(pack)), size)

\* the body of the answer to the pack request: NAK, the pack on band 1 (in one
\* packet, or split into packets of ChunkSize bytes), a flush
UploadPackResponse(pack, split) ==
    FormatPktLine(StrNAK)
    \o SidebandChunks(pack, IF split THEN ChunkSize ELSE Len(pack))
    \o FormatFlushPkt

\* the body of the ref advertisement.  head = "symbolic": HEAD with the
\* capability symref=HEAD:refs/heads/main; "detached": HEAD with no symref;
\* "none": no HEAD line
Advertisement(head, sha) ==
    FormatPktLine(StrServiceLine) \o FormatFlushPkt
    \o (IF head = "none" THEN FormatPktLine(sha \o <<32>> \o StrMain \o <<0>> \o StrCaps \o <<10>>)
        ELSE FormatPktLine(sha \o <<32>> \o StrHEAD \o <<0>> \o StrCaps
                           \o (IF head = "symbolic"
                               THEN <<32>> \o StrSymref \o StrHeadCap \o StrMain ELSE <<>>)
                           \o <<10>>)
             \o FormatPktLine(sha \o <<32>> \o StrMain \o <<10>>))
    \o FormatFlushPkt

\* the ref advertisement of a server whose only ref, the target of HEAD, has
\* the name 'objects'
OddAdvertisement(sha) ==
    FormatPktLine(StrServiceLine) \o FormatFlushPkt
    \o FormatPktLine(sha \o <<32>> \o StrHEAD \o <<0>> \o StrCaps
                     \o <<32>> \o StrSymref \o StrHeadCap \o StrObjects \o <<10>>)
    \o FormatPktLine(sha \o <<32>> \o StrObjects \o <<10>>)
    \o FormatFlushPkt

(***************************************************************************)
(* cloneCommand                                                            *)
(***************************************************************************)

\* refs[name], with undefined as the empty string
RefGet(refs, name) ==
    IF name \in DOMAIN refs THEN refs[name] ELSE <<>>

\* a resolution of HEAD that never throws: whatever HEAD is listed with is the
\* target
ResolveHeadAny(refs) ==
    [ok |-> TRUE, defaultBranchRef |-> <<>>, headSha |-> RefGet(refs, StrHEAD)]

\* the resolution of HEAD in cloneCommand: [ok, defaultBranchRef, headSha];
\* ok = FALSE when it throws
ResolveHead(refs) ==
    LET headRefTarget == RefGet(refs, StrHEAD)
        isSymbolic == headRefTarget # <<>> /\ StartsWith(headRefTarget, StrRefPrefix)
        defaultBranchRef == IF headRefTarget # <<>> THEN Trim(SliceFrom(headRefTarget, 5))
                            ELSE <<>>
        headSha == IF defaultBranchRef # <<>> THEN RefGet(refs, defaultBranchRef)
                   ELSE RefGet(refs, StrHEAD)
    IN  IF ~isSymbolic /\ ~IsSha40(headRefTarget)
        THEN [ok |-> FALSE, defaultBranchRef |-> <<>>, headSha |-> <<>>]
        ELSE IF headSha = <<>> \/ ~IsSha40(headSha)
        THEN [ok |-> FALSE, defaultBranchRef |-> defaultBranchRef, headSha |-> <<>>]
        ELSE [ok |-> TRUE, defaultBranchRef |-> defaultBranchRef, headSha |-> headSha]

RECURSIVE SplitPath(_)
\* the names of a relative path: path.join(dir, str) is dir followed by them
SplitPath(str) ==
    LET slash == IndexOf(str, 47, 0)
    IN  IF slash = -1 THEN (IF str = <<>> THEN <<>> ELSE <<str>>)
        ELSE (IF slash = 0 THEN <<>> ELSE <<Slice(str, 0, slash)>>)
             \o SplitPath(SliceFrom(str, slash + 1))

\* no branch ref file is written
WriteBranchRefSkipped(F, cwd, defaultBranchRef, headSha) ==
    F

\* fs.writeFileSync(refPath, ...) throws: the path is a directory
BranchRefIsDirectory(F, cwd, defaultBranchRef) ==
    cwd \o <<StrDotGit>> \o SplitPath(defaultBranchRef) \in F.dirs

\* the branch ref file: mkdir of its directory, then headSha + "\n"
WriteBranchRef(F, cwd, defaultBranchRef, headSha) ==
    LET gitDir  == cwd \o <<StrDotGit>>
        refPath == gitDir \o SplitPath(defaultBranchRef)
        refDir  == SubSeq(refPath, 1, Len(refPath) - 1)
        F1 == IF ~Exists(F, refDir) THEN MkdirP(F, refDir) ELSE F
    IN  WriteFile(F1, refPath, headSha \o <<10>>)

\* .git/HEAD written without the newline that ends it
HeadFileContentNoNewline(defaultBranchRef, headSha) ==
    IF defaultBranchRef # <<>> THEN StrRefPrefix \o defaultBranchRef ELSE headSha

\* what is written to .git/HEAD
HeadFileContent(defaultBranchRef, headSha) ==
    IF defaultBranchRef # <<>> THEN StrRefPrefix \o defaultBranchRef \o <<10>>
    ELSE headSha \o <<10>>

(***************************************************************************)
(* Pack entries a well-behaved packer does not send, and side-band streams *)
(* that carry an error record                                              *)
(***************************************************************************)

\* the "err\n" of a band 3 record
StrErrText == <<101, 114, 114, 10>>

\* an OFS_DELTA entry: type 6, the size of the delta, one offset byte, the delta
OfsDeltaEntry(negOffset, delta) ==
    EncObjectHeader(6, Len(delta)) \o <<negOffset>> \o Deflate(delta)

\* an entry of a type the format does not define (0 or 5) with a body
UnknownTypeEntry(type, content) ==
    EncObjectHeader(type, Len(content)) \o Deflate(content)

\* a blob entry of which the header declares size and the body inflates to content
MisdeclaredEntry(size, content) ==
    EncObjectHeader(3, size) \o Deflate(content)

\* a pack with a trailer that is not the checksum of its body: the last byte
\* of the trailer is changed
BadTrailer(pack) ==
    SubSeq(pack, 1, Len(pack) - 1) \o <<(pack[Len(pack)] + 1) % 256>>

\* the answer to the pack request with an error record in it: NAK, the first
\* size bytes of the pack on band 1, "err" on band 3, the rest of the pack on
\* band 1, a flush
ErrorBandResponse(pack, size) ==
    FormatPktLine(StrNAK)
    \o FormatPktLine(<<1>> \o SubSeq(pack, 1, size))
    \o FormatPktLine(<<3>> \o StrErrText)
    \o FormatPktLine(<<1>> \o SubSeq(pack, size + 1, Len(pack)))
    \o FormatFlushPkt

(***************************************************************************)
(* The state                                                               *)
(***************************************************************************)

VARIABLES
    files,            \* the files: path |-> [data, mode]
    dirs,             \* the directories
    cwd,              \* process.cwd()
    session,          \* what this run of the model exercises
    pc,               \* where the command is
    remote,           \* the remote of the clone
    refs,             \* cloneCommand: the discovered refs
    defaultBranchRef, \* cloneCommand: the default branch ("" when none)
    headSha,          \* cloneCommand: the target commit
    packData,         \* cloneCommand: the extracted pack
    dec,              \* processPackfile: offset, objectsProcessed, writtenObjects
    checkoutThrew,    \* cloneCommand: the checkout ended in its catch
    op,               \* the last store command: its arguments and result
    nOps,             \* the number of store commands run
    fin,              \* the input of the function under test
    fout              \* its result

vars ==
    <<files, dirs, cwd, session, pc, remote, refs, defaultBranchRef, headSha, packData, dec,
      checkoutThrew, op, nOps, fin, fout>>

FS ==
    [files |-> files, dirs |-> dirs]

Root ==
    <<>>

\* the directory the clone is made in
TargetDir ==
    <<<<114>>>>

NoFiles ==
    [p \in {} |-> [data |-> <<>>, mode |-> ModeDefault]]

\* no store command yet.  existed: the object file was there before the command
NoOp ==
    [name |-> "none", type |-> <<>>, content |-> <<>>, hash |-> <<>>, ok |-> TRUE,
     existed |-> FALSE]

NoRemote ==
    [layout |-> [n |-> 0, nested |-> FALSE, variant |-> 0],
     head |-> "none", deltas |-> "none", split |-> FALSE, getStatus |-> 0, postStatus |-> 0,
     fault |-> "none"]

\* the remotes that answer every request: every layout, HEAD symbolic, detached
\* or missing, the pack whole or deltified, in one side-band packet or split
Remotes ==
    [layout : Layouts, head : {"symbolic", "detached", "none"},
     deltas : {"none", "blobs", "all"}, split : BOOLEAN,
     getStatus : {200}, postStatus : {200}, fault : {"none"}]

\* the remotes of which a request fails
FailingRemotes ==
    [layout : {[n |-> 1, nested |-> FALSE, variant |-> 1]},
     head : {"symbolic"}, deltas : {"none"}, split : {FALSE},
     getStatus : {200, 404}, postStatus : {200, 500}, fault : {"none"}]

\* the remotes that answer with a pack or a stream a well-behaved server does
\* not send.  "unknownType": an entry of type 5 after the commit; "badTrailer":
\* a wrong checksum; "band3": an error record between two band 1 records
FaultyRemotes ==
    [layout : {[n |-> 1, nested |-> FALSE, variant |-> 1]},
     head : {"symbolic"}, deltas : {"none"}, split : {FALSE},
     getStatus : {200}, postStatus : {200},
     fault : {"unknownType", "badTrailer", "band3"}]

\* the remotes whose pack lacks an object of the commit: the tree of the
\* directory d, the blob of the file a, or the blob of the file d/b
SparseRemotes ==
    [layout : {[n |-> 2, nested |-> TRUE, variant |-> 1]},
     head : {"symbolic"}, deltas : {"none"}, split : {FALSE},
     getStatus : {200}, postStatus : {200},
     fault : {"noSubtree", "noBlob1", "noBlob2"}]

\* the remotes whose commit cannot be checked out at all: the pack lacks the
\* commit ("noCommit"), HEAD names the root tree ("headIsTree"), the commit
\* has no tree line ("noTreeLine"), or the root tree lists the blob of the
\* file d/b as the directory d ("blobAsTree")
BrokenRemotes ==
    [layout : {[n |-> 2, nested |-> TRUE, variant |-> 1]},
     head : {"symbolic"}, deltas : {"none"}, split : {FALSE},
     getStatus : {200}, postStatus : {200},
     fault : {"noCommit", "headIsTree", "noTreeLine", "blobAsTree"}]

\* the remotes that make the clone throw after it has entered the target
\* directory: the pack is cut after its first 16 bytes ("shortPack"), or the
\* default branch has the name 'objects', the name of a directory of .git
\* ("refIsDir")
ThrowingRemotes ==
    [layout : {[n |-> 1, nested |-> FALSE, variant |-> 1]},
     head : {"symbolic"}, deltas : {"none"}, split : {FALSE},
     getStatus : {200}, postStatus : {200},
     fault : {"shortPack", "refIsDir"}]

\* a commit without a tree line
BareCommit ==
    [type |-> StrCommit, content |-> StrMessage]

\* the root tree of the layout with the blob of file 2 entered as the directory d
MistypedTree(L) ==
    [type |-> StrTree,
     content |-> FileEntries(L, <<>>, 1)
                 \o TreeEntry(Str40000, StrSubdir, ObjectId(StrBlob, LayoutFile(L, 2).content))]

\* the commit of that tree
MistypedCommit(L) ==
    [type |-> StrCommit,
     content |-> StrTreeSp \o ObjectId(StrTree, MistypedTree(L).content) \o StrMessage]

\* the object the remote advertises as HEAD and as refs/heads/main
RemoteHead(r) ==
    CASE r.fault = "headIsTree" -> ObjectId(StrTree, RootTreePayload(r.layout))
      [] r.fault = "noTreeLine" -> ObjectId(StrCommit, BareCommit.content)
      [] r.fault = "blobAsTree" -> ObjectId(StrCommit, MistypedCommit(r.layout).content)
      [] OTHER -> HeadCommit(r.layout)

\* the entries but the one at position k
WithoutEntry(entries, k) ==
    SubSeq(entries, 1, k - 1) \o SubSeq(entries, k + 1, Len(entries))

\* the entries of the pack of a remote
RemotePackEntries(r) ==
    Let1(PackEntries(r.layout, r.deltas), LAMBDA entries :
         CASE r.fault = "unknownType" ->
                <<entries[1], UnknownTypeEntry(5, SampleContents[2])>> \o Tail(entries)
           [] r.fault = "noSubtree" -> WithoutEntry(entries, 3)
           [] r.fault = "noBlob1" -> WithoutEntry(entries, 4)
           [] r.fault = "noBlob2" -> WithoutEntry(entries, 5)
           [] r.fault = "noCommit" -> WithoutEntry(entries, 1)
           [] r.fault = "noTreeLine" -> <<PackEntry(BareCommit)>> \o Tail(entries)
           [] r.fault = "blobAsTree" ->
                <<PackEntry(MistypedCommit(r.layout)), PackEntry(MistypedTree(r.layout))>>
                \o SubSeq(entries, 3, Len(entries))
           [] OTHER -> entries)

RemotePack(r) ==
    Let1(BuildPack(RemotePackEntries(r)), LAMBDA pack :
         IF r.fault = "badTrailer" THEN BadTrailer(pack)
         ELSE IF r.fault = "shortPack" THEN SubSeq(pack, 1, 16)
         ELSE pack)

RemoteAdvertisement(r) ==
    IF r.fault = "refIsDir" THEN OddAdvertisement(RemoteHead(r))
    ELSE Advertisement(r.head, RemoteHead(r))

RemoteResponse(r) ==
    Let1(RemotePack(r), LAMBDA pack :
         IF r.fault = "band3" THEN ErrorBandResponse(pack, ChunkSize)
         ELSE UploadPackResponse(pack, r.split))

(***************************************************************************)
(* The clone, step by step                                                 *)
(***************************************************************************)

SetFS(F) ==
    /\ files' = F.files
    /\ dirs' = F.dirs

\* a throw inside a try block without a finally block: the process stays in
\* the target directory
CloneThrowsInPlace ==
    /\ pc' = "failed"
    /\ cwd' = cwd

\* a throw inside the try block of cloneCommand: the finally block goes back to
\* the original working directory
CloneThrows ==
    /\ pc' = "failed"
    /\ cwd' = Root

\* no target directory is ever found
TargetNeverTaken(F, targetDir) ==
    FALSE

\* fs.existsSync(targetDir)
TargetTaken(F, targetDir) ==
    Exists(F, targetDir)

\* if (fs.existsSync(targetDir)) throw
CloneCheckTarget ==
    /\ session = "clone" /\ pc = "start"
    /\ pc' = IF TargetTaken(FS, TargetDir) THEN "failed" ELSE "discover"
    /\ UNCHANGED <<files, dirs, cwd, session, remote, refs, defaultBranchRef, headSha, packData,
                   dec, checkoutThrew, op, nOps, fin, fout>>

\* const refs = await discoverRefs(repoUrl)
CloneDiscoverRefs ==
    /\ session = "clone" /\ pc = "discover"
    /\ LET r == DiscoverRefsBody(RemoteAdvertisement(remote))
       IN  IF remote.getStatus # 200 \/ ~r.ok
           THEN pc' = "failed" /\ refs' = refs
           ELSE pc' = "resolve" /\ refs' = r.refs
    /\ UNCHANGED <<files, dirs, cwd, session, remote, defaultBranchRef, headSha, packData, dec,
                   checkoutThrew, op, nOps, fin, fout>>

\* the default branch and the target commit
CloneResolveHead ==
    /\ session = "clone" /\ pc = "resolve"
    /\ LET r == ResolveHead(refs)
       IN  /\ pc' = IF r.ok THEN "mkdir" ELSE "failed"
           /\ defaultBranchRef' = r.defaultBranchRef
           /\ headSha' = r.headSha
    /\ UNCHANGED <<files, dirs, cwd, session, remote, refs, packData, dec, checkoutThrew, op,
                   nOps, fin, fout>>

\* fs.mkdirSync(targetDir); process.chdir(targetDir)
CloneMkdir ==
    /\ session = "clone" /\ pc = "mkdir"
    /\ dirs' = dirs \cup {TargetDir}
    /\ cwd' = TargetDir
    /\ pc' = "init"
    /\ UNCHANGED <<files, session, remote, refs, defaultBranchRef, headSha, packData, dec,
                   checkoutThrew, op, nOps, fin, fout>>

\* initCommand()
CloneInit ==
    /\ session = "clone" /\ pc = "init"
    /\ SetFS(InitCommand(FS, cwd))
    /\ pc' = "request"
    /\ UNCHANGED <<cwd, session, remote, refs, defaultBranchRef, headSha, packData, dec,
                   checkoutThrew, op, nOps, fin, fout>>

\* const packfileData = await requestPackfile(repoUrl, [headSha])
CloneRequestPackfile ==
    /\ session = "clone" /\ pc = "request"
    /\ LET e == ExtractPack(RemoteResponse(remote))
       IN  IF remote.postStatus = 200 /\ e.status = "ok"
           THEN pc' = "unpack" /\ packData' = e.packData /\ cwd' = cwd
           ELSE IF remote.postStatus = 200 /\ e.status = "hang"
           THEN pc' = "hung" /\ packData' = packData /\ cwd' = cwd
           ELSE CloneThrows /\ packData' = packData
    /\ UNCHANGED <<files, dirs, session, remote, refs, defaultBranchRef, headSha, dec,
                   checkoutThrew, op, nOps, fin, fout>>

\* processPackfile up to its loop
CloneUnpackStart ==
    /\ session = "clone" /\ pc = "unpack"
    /\ IF PackLongEnough(packData)
       THEN pc' = "objects" /\ cwd' = cwd
       ELSE CloneThrows
    /\ dec' = PackInitState
    /\ UNCHANGED <<files, dirs, session, remote, refs, defaultBranchRef, headSha, packData,
                   checkoutThrew, op, nOps, fin, fout>>

\* one iteration of the loop of processPackfile
CloneUnpackObject ==
    /\ session = "clone" /\ pc = "objects"
    /\ PackLoopRuns(packData, ReadUInt32BE(packData, 8), dec)
    /\ LET r == PackObjectStep(FS, cwd, packData, ReadUInt32BE(packData, 8), dec)
       IN  SetFS(r.F) /\ dec' = r.st
    /\ UNCHANGED <<cwd, session, pc, remote, refs, defaultBranchRef, headSha, packData,
                   checkoutThrew, op, nOps, fin, fout>>

\* the loop is over: processPackfile returns
CloneUnpackEnd ==
    /\ session = "clone" /\ pc = "objects"
    /\ ~PackLoopRuns(packData, ReadUInt32BE(packData, 8), dec)
    /\ pc' = IF defaultBranchRef # <<>> THEN "branchref" ELSE "head"
    /\ UNCHANGED <<files, dirs, cwd, session, remote, refs, defaultBranchRef, headSha, packData,
                   dec, checkoutThrew, op, nOps, fin, fout>>

\* fs.writeFileSync(refPath, headSha + "\n"); it throws when refPath is a
\* directory
CloneWriteBranchRef ==
    /\ session = "clone" /\ pc = "branchref"
    /\ IF BranchRefIsDirectory(FS, cwd, defaultBranchRef)
       THEN CloneThrows /\ UNCHANGED <<files, dirs>>
       ELSE /\ SetFS(WriteBranchRef(FS, cwd, defaultBranchRef, headSha))
            /\ pc' = "head" /\ cwd' = cwd
    /\ UNCHANGED <<session, remote, refs, defaultBranchRef, headSha, packData, dec,
                   checkoutThrew, op, nOps, fin, fout>>

\* fs.writeFileSync(path.join(gitDir, "HEAD"), ...)
CloneWriteHead ==
    /\ session = "clone" /\ pc = "head"
    /\ SetFS(WriteFile(FS, cwd \o <<StrDotGit, StrHEAD>>,
                       HeadFileContent(defaultBranchRef, headSha)))
    /\ pc' = "checkout"
    /\ UNCHANGED <<cwd, session, remote, refs, defaultBranchRef, headSha, packData, dec,
                   checkoutThrew, op, nOps, fin, fout>>

\* await checkout(headSha, ".") with no catch of its own: what checkout throws
\* is thrown by cloneCommand
CloneCheckoutStrict ==
    /\ session = "clone" /\ pc = "checkout"
    /\ LET r == Checkout(FS, cwd, headSha)
       IN  /\ SetFS(r.F) /\ checkoutThrew' = r.threw
           /\ IF r.threw THEN CloneThrows ELSE pc' = "finish" /\ cwd' = cwd
    /\ UNCHANGED <<session, remote, refs, defaultBranchRef, headSha, packData, dec, op,
                   nOps, fin, fout>>

\* try { await checkout(headSha, ".") } catch { log }
CloneCheckout ==
    /\ session = "clone" /\ pc = "checkout"
    /\ LET r == Checkout(FS, cwd, headSha)
       IN  SetFS(r.F) /\ checkoutThrew' = r.threw
    /\ pc' = "finish"
    /\ UNCHANGED <<cwd, session, remote, refs, defaultBranchRef, headSha, packData, dec, op,
                   nOps, fin, fout>>

\* finally { process.chdir(originalCwd) }: cloneCommand returns
CloneFinish ==
    /\ session = "clone" /\ pc = "finish"
    /\ cwd' = Root
    /\ pc' = "done"
    /\ UNCHANGED <<files, dirs, session, remote, refs, defaultBranchRef, headSha, packData,
                   dec, checkoutThrew, op, nOps, fin, fout>>

(***************************************************************************)
(* The commands on the local store                                         *)
(***************************************************************************)

\* the longest payload handed to writeGitObject
MaxPayloadLen ==
    2

\* the number of store commands in a run
MaxOps ==
    2

\* the payloads are the prefixes of: 'f' NUL ' ' '1' LF 'x' ...
SamplePayload(k) ==
    [i \in 1 .. k |-> <<102, 0, 32, 49, 10, 120>>[((i - 1) % 6) + 1]]

Payloads ==
    { SamplePayload(k) : k \in 0 .. MaxPayloadLen }

Kinds ==
    {StrCommit, StrTree, StrBlob, StrTag}

\* the times the clock shows when commit-tree runs
Timestamps ==
    {1700000000, 1700000001}

\* the files of the directory the store commands run in: a and the executable b,
\* and c in the directory s
StoreWorktree ==
    [files |-> (<< <<97>> >> :> [data |-> <<102, 111, 111>>, mode |-> 420])
               @@ (<< <<98>> >> :> [data |-> <<102, 111, 111, 98, 97, 114>>, mode |-> 493])
               @@ (<< <<115>>, <<99>> >> :> [data |-> <<>>, mode |-> 420]),
     dirs |-> {<<>>, << <<115>> >>}]

\* the paths hash-object is run on; the last one does not exist
HashObjectPaths ==
    { << <<97>> >>, << <<115>>, <<99>> >>, << <<122>> >> }

StoreStep(F, o) ==
    /\ session = "store" /\ nOps < MaxOps
    /\ SetFS(F)
    /\ op' = o
    /\ nOps' = nOps + 1
    /\ UNCHANGED <<cwd, session, pc, remote, refs, defaultBranchRef, headSha, packData, dec,
                   checkoutThrew, fin, fout>>

\* init
StoreInit ==
    StoreStep(InitCommand(FS, cwd), [NoOp EXCEPT !.name = "init"])

\* writeGitObject(type, content)
StoreWriteGitObject ==
    \E type \in Kinds, content \in Payloads :
        LET w == WriteGitObject(FS, cwd, type, content)
        IN  StoreStep(w.F, [name |-> "writeGitObject", type |-> type, content |-> content,
                            hash |-> w.hash, ok |-> TRUE,
                            existed |-> Exists(FS, ObjectPath(cwd, w.hash))])

\* hash-object -w <file>
StoreHashObject ==
    \E filePath \in HashObjectPaths :
        LET w == WriteBlobObject(FS, cwd, cwd \o filePath)
        IN  StoreStep(w.F, [name |-> "writeBlobObject", type |-> StrBlob,
                            content |-> IF w.ok THEN files[cwd \o filePath].data ELSE <<>>,
                            hash |-> w.hash, ok |-> w.ok,
                            existed |-> w.ok /\ Exists(FS, ObjectPath(cwd, w.hash))])

\* write-tree
StoreWriteTree ==
    LET w == WriteTreeCommand(FS, cwd, cwd)
    IN  StoreStep(w.F, [NoOp EXCEPT !.name = "writeTree", !.type = StrTree, !.hash = w.hash,
                                    !.existed = Exists(FS, ObjectPath(cwd, w.hash))])

\* commit-tree <tree> -p <parent> -m <message>
StoreCommitTree ==
    \E timestamp \in Timestamps :
        LET tree == ObjectId(StrTree, <<>>)
            w == CommitTreeCommand(FS, cwd, tree, tree, <<109>>, timestamp)
        IN  StoreStep(w.F, [NoOp EXCEPT !.name = "commitTree", !.type = StrCommit,
                                        !.hash = w.hash,
                                        !.existed = Exists(FS, ObjectPath(cwd, w.hash))])

(***************************************************************************)
(* The specification                                                       *)
(***************************************************************************)

InitClone ==
    /\ session = "clone"
    /\ pc = "start"
    /\ \/ remote \in Remotes \cup FaultyRemotes \cup SparseRemotes \cup BrokenRemotes
                       \cup ThrowingRemotes
          /\ dirs = {Root}
       \/ remote \in FailingRemotes /\ dirs \in {{Root}, {Root, TargetDir}}
    /\ files = NoFiles
    /\ nOps = 0

InitStore ==
    /\ session = "store"
    /\ pc = "idle"
    /\ remote = NoRemote
    /\ files = StoreWorktree.files
    /\ dirs = StoreWorktree.dirs
    /\ nOps = 0

Init ==
    /\ InitClone \/ InitStore
    /\ cwd = Root
    /\ refs = EmptyRefs
    /\ defaultBranchRef = <<>>
    /\ headSha = <<>>
    /\ packData = <<>>
    /\ dec = PackInitState
    /\ checkoutThrew = FALSE
    /\ op = NoOp
    /\ fin = <<>>
    /\ fout = <<>>

Next ==
    \/ CloneCheckTarget
    \/ CloneDiscoverRefs
    \/ CloneResolveHead
    \/ CloneMkdir
    \/ CloneInit
    \/ CloneRequestPackfile
    \/ CloneUnpackStart
    \/ CloneUnpackObject
    \/ CloneUnpackEnd
    \/ CloneWriteBranchRef
    \/ CloneWriteHead
    \/ CloneCheckout
    \/ CloneFinish
    \/ StoreInit
    \/ StoreWriteGitObject
    \/ StoreHashObject
    \/ StoreWriteTree
    \/ StoreCommitTree

Spec ==
    Init /\ [][Next]_vars

(***************************************************************************)
(* applyDelta on its own: the deltas a packer makes, and the same deltas    *)
(* with another source size in their header                                *)
(***************************************************************************)

\* the largest number of instructions of a delta
MaxInstrs ==
    2

\* the length of the long base
LongBaseLen ==
    300

\* the bases: '', 'foo', 'foobar' and LongBaseLen bytes
DeltaBases ==
    {<<>>, <<102, 111, 111>>, <<102, 111, 111, 98, 97, 114>>,
     [i \in 1 .. LongBaseLen |-> (i * 7) % 251]}

\* the instructions tried on a base: copies inside it and inserts
DeltaInstrs(base) ==
    { c \in [op : {"copy"}, offset : {0, 1, 256}, size : {1, 3, LongBaseLen},
             bytes : {<<>>}] : c.offset + c.size <= Len(base) }
    \cup [op : {"insert"}, offset : {0}, size : {0}, bytes : {<<98>>, <<98, 97, 114>>}]

\* the sequences of at most n of these instructions
InstrSeqs(base, n) ==
    UNION { [1 .. k -> DeltaInstrs(base)] : k \in 0 .. n }

\* the n low bytes of v, the low byte first
LowBytes(v, n) ==
    [i \in 1 .. n |-> (v \div Pow2(8 * (i - 1))) % 256]

RECURSIVE FieldFlags(_, _, _)
\* the flag bits of the bytes from i on that are not zero: bit first + i - 1
FieldFlags(bytes, first, i) ==
    IF i > Len(bytes) THEN 0
    ELSE (IF bytes[i] # 0 THEN Pow2(first + i - 1) ELSE 0) + FieldFlags(bytes, first, i + 1)

NonZero(b) ==
    b # 0

\* one instruction as a packer writes it: a copy names only the bytes of its
\* offset and size that are not zero
EncInstr(ins) ==
    IF ins.op = "copy"
    THEN <<128 + FieldFlags(LowBytes(ins.offset, 4), 0, 1)
               + FieldFlags(LowBytes(ins.size, 3), 4, 1)>>
         \o SelectSeq(LowBytes(ins.offset, 4), NonZero)
         \o SelectSeq(LowBytes(ins.size, 3), NonZero)
    ELSE <<Len(ins.bytes)>> \o ins.bytes

\* the bytes an instruction describes
InstrTarget(base, ins) ==
    IF ins.op = "copy" THEN SubSeq(base, ins.offset + 1, ins.offset + ins.size)
    ELSE ins.bytes

\* the target a sequence of instructions describes
DeltaTarget(base, instrs) ==
    Concat([i \in 1 .. Len(instrs) |-> InstrTarget(base, instrs[i])])

\* the delta: the header of the source size, the size of the target, the
\* instructions
EncDelta(base, header, instrs) ==
    header \o EncVarint(Len(DeltaTarget(base, instrs)))
    \o Concat([i \in 1 .. Len(instrs) |-> EncInstr(instrs[i])])

\* the size n + 2^32 as a size header: the four low groups of n, then the
\* group of the bits 28 to 34
EncVarintPlus2To32(n) ==
    [i \in 1 .. 4 |-> 128 + ((n \div Pow2(7 * (i - 1))) % 128)] \o <<16>>

\* the source size headers: the length of the base, or another size
SourceHeaders(base) ==
    {EncVarint(Len(base)), EncVarint(Len(base) + 1), EncVarint(Len(base) + 128),
     EncVarintPlus2To32(Len(base))}

DeltaInputs ==
    UNION { { [base |-> b, instrs |-> q, header |-> h, delta |-> EncDelta(b, h, q)] :
                q \in InstrSeqs(b, MaxInstrs), h \in SourceHeaders(b) } : b \in DeltaBases }

\* what the variables of the clone and of the store are when a function is run
\* on its own
NoSession ==
    /\ files = NoFiles
    /\ dirs = {Root}
    /\ cwd = Root
    /\ remote = NoRemote
    /\ refs = EmptyRefs
    /\ defaultBranchRef = <<>>
    /\ headSha = <<>>
    /\ packData = <<>>
    /\ dec = PackInitState
    /\ checkoutThrew = FALSE
    /\ op = NoOp
    /\ nOps = 0

InitDelta ==
    /\ session = "delta"
    /\ pc = "idle"
    /\ fin \in DeltaInputs
    /\ fout = DeltaFail
    /\ NoSession

\* applyDelta(baseContent, deltaData)
ApplyDeltaStep ==
    /\ session = "delta" /\ pc = "idle"
    /\ fout' = ApplyDelta(fin.base, fin.delta)
    /\ pc' = "applied"
    /\ UNCHANGED <<files, dirs, cwd, session, remote, refs, defaultBranchRef, headSha,
                   packData, dec, checkoutThrew, op, nOps, fin>>

NextDelta ==
    ApplyDeltaStep

SpecDelta ==
    InitDelta /\ [][NextDelta]_vars

(***************************************************************************)
(* The pkt-line codec on its own: a payload is formatted and the line is    *)
(* parsed                                                                  *)
(***************************************************************************)

\* the longest of the short payloads
MaxPktLen ==
    3

\* the bytes of the short payloads: 'a', space, line feed, NUL
PktBytes ==
    {97, 32, 10, 0}

\* a ref line as a server sends it: 40 hex digits, a space, the name, a line feed
StrRefLine ==
    [i \in 1 .. 40 |-> 97] \o <<32>> \o StrMain \o <<10>>

\* the payloads: every short one, a ref line, and payloads of 12 and 252 bytes
PktPayloads ==
    UNION { [1 .. k -> PktBytes] : k \in 0 .. MaxPktLen }
    \cup {StrRefLine, [i \in 1 .. 12 |-> 97], [i \in 1 .. 252 |-> 97]}

InitPkt ==
    /\ session = "pkt"
    /\ pc = "idle"
    /\ fin \in PktPayloads
    /\ fout = [ok |-> FALSE, refs |-> EmptyRefs, lines |-> <<>>, end |-> 0]
    /\ NoSession

\* parsePktLine(Buffer.from(formatPktLine(line)))
PktRoundTrip ==
    /\ session = "pkt" /\ pc = "idle"
    /\ fout' = ParsePktLine(FormatPktLine(fin))
    /\ pc' = "parsed"
    /\ UNCHANGED <<files, dirs, cwd, session, remote, refs, defaultBranchRef, headSha,
                   packData, dec, checkoutThrew, op, nOps, fin>>

NextPkt ==
    PktRoundTrip

SpecPkt ==
    InitPkt /\ [][NextPkt]_vars

(***************************************************************************)
(* The pack decoders on their own: packs of a few entries, among them      *)
(* entries no well-behaved packer sends, with a right or a wrong trailer   *)
(***************************************************************************)

\* the most entries of a pack
MaxPackItems ==
    2

\* the entries.  "blob": the blob 'foo'; "delta": the blob 'foobar' as a
\* REF_DELTA on the blob 'foo'; "orphan": a REF_DELTA on a blob that is in no
\* pack; "ofs": an OFS_DELTA; "unknown0", "unknown5": entries of the types 0
\* and 5; "short": a blob declared 2 bytes long with a body of 3; "zero": a blob
\* declared empty with a body of 3; "empty": the empty blob
PackItems ==
    {"blob", "delta", "orphan", "ofs", "unknown0", "unknown5", "short", "zero", "empty"}

ItemEntry(item) ==
    CASE item = "blob" -> PackEntry([type |-> StrBlob, content |-> SampleContents[2]])
      [] item = "delta" ->
           RefDeltaEntry(ObjectId(StrBlob, SampleContents[2]),
                         DeltaFor(SampleContents[2], SampleContents[3]))
      [] item = "orphan" ->
           RefDeltaEntry(ObjectId(StrBlob, <<120>>), DeltaFor(<<120>>, <<120, 121>>))
      [] item = "ofs" -> OfsDeltaEntry(5, DeltaFor(SampleContents[2], SampleContents[3]))
      [] item = "unknown0" -> UnknownTypeEntry(0, SampleContents[2])
      [] item = "unknown5" -> UnknownTypeEntry(5, SampleContents[2])
      [] item = "short" -> MisdeclaredEntry(2, SampleContents[2])
      [] item = "zero" -> MisdeclaredEntry(0, SampleContents[2])
      [] OTHER -> PackEntry([type |-> StrBlob, content |-> <<>>])

\* the packs: the sequences of at most MaxPackItems entries
ItemPacks ==
    UNION { [1 .. k -> PackItems] : k \in 0 .. MaxPackItems }

\* the inputs: the entries, whether the trailer is the checksum, and which of
\* the two decoders runs
UnpackInputs ==
    [items : ItemPacks, goodTrailer : BOOLEAN, decoder : {"clone", "utils"}]

\* the pack of the entries with the right trailer
ItemsPack(items) ==
    BuildPack([i \in 1 .. Len(items) |-> ItemEntry(items[i])])

UnpackPack(in) ==
    IF in.goodTrailer THEN ItemsPack(in.items) ELSE BadTrailer(ItemsPack(in.items))

\* a repository in the current directory, as init leaves it
EmptyRepository ==
    InitCommand([files |-> NoFiles, dirs |-> {Root}], Root)

NoReturn ==
    [returned |-> FALSE, written |-> PackInitState.written, checksumOk |-> FALSE]

InitUnpack ==
    /\ session = "unpack"
    /\ pc = "unpack"
    /\ fin \in UnpackInputs
    /\ fout = NoReturn
    /\ files = EmptyRepository.files
    /\ dirs = EmptyRepository.dirs
    /\ cwd = Root
    /\ remote = NoRemote
    /\ refs = EmptyRefs
    /\ defaultBranchRef = <<>>
    /\ headSha = <<>>
    /\ packData = <<>>
    /\ dec = PackInitState
    /\ checkoutThrew = FALSE
    /\ op = NoOp
    /\ nOps = 0

\* processPackfile(packData) up to its loop
UnpackStart ==
    /\ session = "unpack" /\ pc = "unpack"
    /\ packData' = UnpackPack(fin)
    /\ pc' = IF PackLongEnough(UnpackPack(fin)) THEN "objects" ELSE "failed"
    /\ dec' = PackInitState
    /\ UNCHANGED <<files, dirs, cwd, session, remote, refs, defaultBranchRef, headSha,
                   checkoutThrew, op, nOps, fin, fout>>

\* one iteration of the loop of processPackfile of clone.js
UnpackObjectClone ==
    /\ session = "unpack" /\ pc = "objects" /\ fin.decoder = "clone"
    /\ PackLoopRuns(packData, ReadUInt32BE(packData, 8), dec)
    /\ LET r == PackObjectStep(FS, cwd, packData, ReadUInt32BE(packData, 8), dec)
       IN  SetFS(r.F) /\ dec' = r.st
    /\ UNCHANGED <<cwd, session, pc, remote, refs, defaultBranchRef, headSha, packData,
                   checkoutThrew, op, nOps, fin, fout>>

\* one iteration of the loop of processPackfile of repositoryUtils.js
UnpackObjectUtils ==
    /\ session = "unpack" /\ pc = "objects" /\ fin.decoder = "utils"
    /\ PackLoopRuns(packData, ReadUInt32BE(packData, 8), dec)
    /\ LET r == UtilsObjectStep(FS, cwd, packData, ReadUInt32BE(packData, 8), dec)
       IN  SetFS(r.F) /\ dec' = r.st
    /\ UNCHANGED <<cwd, session, pc, remote, refs, defaultBranchRef, headSha, packData,
                   checkoutThrew, op, nOps, fin, fout>>

\* the loop is over: the checksum is compared and processPackfile returns
UnpackEnd ==
    /\ session = "unpack" /\ pc = "objects"
    /\ ~PackLoopRuns(packData, ReadUInt32BE(packData, 8), dec)
    /\ fout' = PackReturn(packData, dec)
    /\ pc' = "unpacked"
    /\ UNCHANGED <<files, dirs, cwd, session, remote, refs, defaultBranchRef, headSha,
                   packData, dec, checkoutThrew, op, nOps, fin>>

NextUnpack ==
    \/ UnpackStart
    \/ UnpackObjectClone
    \/ UnpackObjectUtils
    \/ UnpackEnd

SpecUnpack ==
    InitUnpack /\ [][NextUnpack]_vars

(***************************************************************************)
(* The decoder of the ref advertisement on its own: advertisements of a    *)
(* few records, among them records no well-behaved server sends            *)
(***************************************************************************)

\* the most records of an advertisement
MaxAdvRecords ==
    2

StrSha == [i \in 1 .. 40 |-> 97]
StrOther == <<120>>

\* the records.  "first0", "first1", "first2": the line of HEAD with a
\* capability list of no, one (HEAD) and two (HEAD, then x) symref pairs;
\* "ref": the line of refs/heads/main; "flush": 0000; "badhex": a record whose
\* length field is 'zzzz'; "tiny": a record whose length field is 0002;
\* "long": a record whose length field, ffff, is more than what is left
AdvItems ==
    {"first0", "first1", "first2", "ref", "flush", "badhex", "tiny", "long"}

AdvRecord(item) ==
    CASE item = "first0" ->
           FormatPktLine(StrSha \o <<32>> \o StrHEAD \o <<0>> \o StrCaps \o <<10>>)
      [] item = "first1" ->
           FormatPktLine(StrSha \o <<32>> \o StrHEAD \o <<0>> \o StrCaps \o <<32>>
                         \o StrSymref \o StrHeadCap \o StrMain \o <<10>>)
      [] item = "first2" ->
           FormatPktLine(StrSha \o <<32>> \o StrHEAD \o <<0>> \o StrCaps \o <<32>>
                         \o StrSymref \o StrHeadCap \o StrMain \o <<32>>
                         \o StrSymref \o StrOther \o <<58>> \o StrMain \o <<10>>)
      [] item = "ref" -> FormatPktLine(StrRefLine)
      [] item = "flush" -> FormatFlushPkt
      [] item = "badhex" -> <<122, 122, 122, 122>> \o StrRefLine
      [] item = "tiny" -> <<48, 48, 48, 50>>
      [] OTHER -> <<102, 102, 102, 102>> \o StrRefLine

\* the inputs: the records, and whether the service announcement comes first
AdvInputs ==
    [records : UNION { [1 .. k -> AdvItems] : k \in 0 .. MaxAdvRecords },
     service : BOOLEAN]

\* the body of the response to the ref discovery request
AdvBuffer(in) ==
    (IF in.service THEN FormatPktLine(StrServiceLine) \o FormatFlushPkt ELSE <<>>)
    \o Concat([i \in 1 .. Len(in.records) |-> AdvRecord(in.records[i])])

InitAdv ==
    /\ session = "adv"
    /\ pc = "idle"
    /\ fin \in AdvInputs
    /\ fout = [ok |-> FALSE, refs |-> EmptyRefs, lines |-> <<>>, end |-> 0]
    /\ NoSession

\* discoverRefs once the response has ended with status 200
AdvDiscover ==
    /\ session = "adv" /\ pc = "idle"
    /\ fout' = DiscoverRefsBody(AdvBuffer(fin))
    /\ pc' = "parsed"
    /\ UNCHANGED <<files, dirs, cwd, session, remote, refs, defaultBranchRef, headSha,
                   packData, dec, checkoutThrew, op, nOps, fin>>

NextAdv ==
    AdvDiscover

SpecAdv ==
    InitAdv /\ [][NextAdv]_vars

(***************************************************************************)
(* applyDelta on deltas no packer makes: instructions that are not legal   *)
(* and target sizes that are not the length of what the instructions give  *)
(***************************************************************************)

\* the largest number of instructions of such a delta
MaxRawInstrs ==
    2

\* the instructions.  "copy": the first 3 bytes of the base; "insert": the
\* bytes 'ba'; "copyOut": a copy of as many bytes as the base has from offset 1
\* on; "insertZero": an insert of size 0; "truncated": an insert of 3 bytes of
\* which the delta holds one
RawInstrs ==
    {"copy", "insert", "copyOut", "insertZero", "truncated"}

RawInstrBytes(base, kind) ==
    CASE kind = "copy" ->
           EncInstr([op |-> "copy", offset |-> 0, size |-> 3, bytes |-> <<>>])
      [] kind = "insert" -> <<2, 98, 97>>
      [] kind = "copyOut" ->
           EncInstr([op |-> "copy", offset |-> 1, size |-> Len(base), bytes |-> <<>>])
      [] kind = "insertZero" -> <<0>>
      [] OTHER -> <<3, 98>>

\* what a legal instruction gives
RawInstrTarget(base, kind) ==
    CASE kind = "copy" -> SubSeq(base, 1, 3)
      [] kind = "insert" -> <<98, 97>>
      [] OTHER -> <<>>

\* the sequences of at most MaxRawInstrs instructions; the truncated insert
\* can only be the last one
RawInstrSeqs ==
    { q \in UNION { [1 .. k -> RawInstrs] : k \in 0 .. MaxRawInstrs } :
        \A i \in 1 .. Len(q) - 1 : q[i] # "truncated" }

\* what the instructions give
RawTarget(base, instrs) ==
    Concat([i \in 1 .. Len(instrs) |-> RawInstrTarget(base, instrs[i])])

\* the target size header: the length n of what the instructions give, one
\* more, one less, or n + 2^32
TargetHeader(n, declared) ==
    CASE declared = "exact" -> EncVarint(n)
      [] declared = "more" -> EncVarint(n + 1)
      [] declared = "less" -> EncVarint(n - 1)
      [] OTHER -> EncVarintPlus2To32(n)

RawDeltaInputs ==
    { in \in [base : {<<102, 111, 111>>, <<102, 111, 111, 98, 97, 114>>},
              instrs : RawInstrSeqs,
              declared : {"exact", "more", "less", "wrap"}] :
        in.declared = "less" => Len(RawTarget(in.base, in.instrs)) >= 1 }

RawDelta(in) ==
    EncVarint(Len(in.base))
    \o TargetHeader(Len(RawTarget(in.base, in.instrs)), in.declared)
    \o Concat([i \in 1 .. Len(in.instrs) |-> RawInstrBytes(in.base, in.instrs[i])])

InitRawDelta ==
    /\ session = "rawdelta"
    /\ pc = "idle"
    /\ fin \in RawDeltaInputs
    /\ fout = DeltaFail
    /\ NoSession

\* applyDelta(baseContent, deltaData)
ApplyRawDelta ==
    /\ session = "rawdelta" /\ pc = "idle"
    /\ fout' = ApplyDelta(fin.base, RawDelta(fin))
    /\ pc' = "applied"
    /\ UNCHANGED <<files, dirs, cwd, session, remote, refs, defaultBranchRef, headSha,
                   packData, dec, checkoutThrew, op, nOps, fin>>

NextRawDelta ==
    ApplyRawDelta

SpecRawDelta ==
    InitRawDelta /\ [][NextRawDelta]_vars

(***************************************************************************)
(* write-tree on its own: directories of a few files whose names mix upper *)
(* and lower case                                                          *)
(***************************************************************************)

\* the most files of the directory
MaxTreeEntries ==
    3

\* the names: a, b, A, B, ab, aB, Ab
TreeNames ==
    {<<97>>, <<98>>, <<65>>, <<66>>, <<97, 98>>, <<97, 66>>, <<65, 98>>}

\* the inputs: the names of the files, and whether they are in the directory
\* the command runs in or in its subdirectory s
TreeInputs ==
    [names : { S \in SUBSET TreeNames : Cardinality(S) <= MaxTreeEntries },
     nested : BOOLEAN]

\* the directory of the files
TreeDir(in) ==
    IF in.nested THEN << <<115>> >> ELSE <<>>

\* a repository with the files in it; each file holds its name
TreeWorktree(in) ==
    [files |-> [p \in DOMAIN EmptyRepository.files \cup { TreeDir(in) \o <<n>> : n \in in.names } |->
                  IF p \in DOMAIN EmptyRepository.files THEN EmptyRepository.files[p]
                  ELSE [data |-> p[Len(p)], mode |-> 420]],
     dirs |-> EmptyRepository.dirs \cup {TreeDir(in)}]

InitTree ==
    /\ session = "tree"
    /\ pc = "idle"
    /\ fin \in TreeInputs
    /\ fout = [hash |-> <<>>]
    /\ files = TreeWorktree(fin).files
    /\ dirs = TreeWorktree(fin).dirs
    /\ cwd = Root
    /\ remote = NoRemote
    /\ refs = EmptyRefs
    /\ defaultBranchRef = <<>>
    /\ headSha = <<>>
    /\ packData = <<>>
    /\ dec = PackInitState
    /\ checkoutThrew = FALSE
    /\ op = NoOp
    /\ nOps = 0

\* write-tree
TreeWriteTree ==
    /\ session = "tree" /\ pc = "idle"
    /\ LET w == WriteTreeCommand(FS, cwd, cwd)
       IN  SetFS(w.F) /\ fout' = [hash |-> w.hash]
    /\ pc' = "written"
    /\ UNCHANGED <<cwd, session, remote, refs, defaultBranchRef, headSha, packData, dec,
                   checkoutThrew, op, nOps, fin>>

NextTree ==
    TreeWriteTree

SpecTree ==
    InitTree /\ [][NextTree]_vars

(***************************************************************************)
(* The extraction of the pack on its own: response bodies of a few records, *)
(* among them length fields no well-behaved server sends                   *)
(***************************************************************************)

\* the largest number of records of a response body
MaxResponseRecords ==
    3

\* the kinds of record
ResponseItems ==
    {"flush", "progress", "error", "data", "small", "zeroX", "zeroSp", "neg", "nan", "raw"}

\* the bytes of a record: '0000'; a packet of band 2, of band 3, of band 1
\* with 'PACK'; '0004'; the length fields '0x00' and '000 ' (both parse to 0),
\* '-004' (parses to -4) and 'zzzz' (NaN); the bare signature 'PACK'
ResponseRecord(item) ==
    CASE item = "flush" -> StrFlush
      [] item = "progress" -> <<48, 48, 48, 54, 2, 97>>
      [] item = "error" -> <<48, 48, 48, 54, 3, 97>>
      [] item = "data" -> <<48, 48, 48, 57, 1>> \o StrPACK
      [] item = "small" -> <<48, 48, 48, 52>>
      [] item = "zeroX" -> <<48, 120, 48, 48>>
      [] item = "zeroSp" -> <<48, 48, 48, 32>>
      [] item = "neg" -> <<45, 48, 48, 52>>
      [] item = "nan" -> <<122, 122, 122, 122>>
      [] item = "raw" -> StrPACK

ResponseInputs ==
    UNION { [1 .. k -> ResponseItems] : k \in 0 .. MaxResponseRecords }

RECURSIVE ResponseBuffer(_)
\* the response body: the records one after the other
ResponseBuffer(records) ==
    IF records = <<>> THEN <<>>
    ELSE ResponseRecord(Head(records)) \o ResponseBuffer(Tail(records))

InitExtract ==
    /\ session = "extract"
    /\ pc = "idle"
    /\ fin \in ResponseInputs
    /\ fout = [status |-> "none", packData |-> <<>>]
    /\ NoSession

\* res.on('end') of requestPackfile on the body of the response
ExtractResponse ==
    /\ session = "extract" /\ pc = "idle"
    /\ fout' = ExtractPack(ResponseBuffer(fin))
    /\ pc' = "extracted"
    /\ UNCHANGED <<files, dirs, cwd, session, remote, refs, defaultBranchRef, headSha,
                   packData, dec, checkoutThrew, op, nOps, fin>>

NextExtract ==
    ExtractResponse

SpecExtract ==
    InitExtract /\ [][NextExtract]_vars

(***************************************************************************)
(* The claims                                                              *)
(***************************************************************************)

\* the files of the clone outside .git: path below the clone directory |-> [data, mode]
Worktree ==
    [p \in { SubSeq(q, 2, Len(q)) :
               q \in { f \in DOMAIN files :
                         Len(f) >= 2 /\ f[1] = TargetDir[1] /\ f[2] # StrDotGit } } |->
        files[TargetDir \o p]]

\* the directories of the clone outside .git, the clone directory left out
WorktreeDirs ==
    { SubSeq(q, 2, Len(q)) :
        q \in { d \in dirs : Len(d) >= 2 /\ d[1] = TargetDir[1] /\ d[2] # StrDotGit } }

\* cloneCommand has returned without throwing
CloneReturned ==
    session = "clone" /\ pc = "done"

\* C1: for every remote whose HEAD resolves to a commit whose tree holds only
\* non-delta blobs and subtrees, once cloneCommand has returned the working
\* directory holds exactly one file per blob entry of the tree, at the path of
\* the entry names, with the blob's bytes and the mode 0o755 for 100755 and
\* 0o644 for 100644.
C1_CheckoutMatchesTree ==
    (CloneReturned /\ remote.head = "symbolic" /\ remote.deltas = "none")
        => Worktree = ExpectedFiles(remote.layout)

\* the data of a file, <<>> when it is not there
FileData(path) ==
    IF path \in DOMAIN files THEN files[path].data ELSE <<>>

\* C2: after a successful clone from a remote whose advertised HEAD is symbolic,
\* .git/HEAD holds exactly 'ref: <defaultBranch>' and a newline, and the file
\* .git/<defaultBranch> holds exactly the 40 hex digits of the branch's commit
\* and a newline.
C2_SymbolicHeadWritten ==
    (CloneReturned /\ remote.head = "symbolic")
        => /\ TargetDir \o <<StrDotGit, StrHEAD>> \in DOMAIN files
           /\ FileData(TargetDir \o <<StrDotGit, StrHEAD>>) = StrRefPrefix \o StrMain \o <<10>>
           /\ TargetDir \o <<StrDotGit>> \o SplitPath(StrMain) \in DOMAIN files
           /\ FileData(TargetDir \o <<StrDotGit>> \o SplitPath(StrMain))
                = RemoteHead(remote) \o <<10>>

C2_Witness ==
    /\ CloneReturned /\ remote.head = "symbolic" /\ remote.layout.n = 2
    /\ FileData(TargetDir \o <<StrDotGit>> \o SplitPath(StrMain))
         = HeadCommit(remote.layout) \o <<10>>

\* C3: for every kind among commit, tree, blob and tag and every payload,
\* readObject of the identity writeGitObject(kind, payload) returned gives
\* exactly (kind, payload), and the identity is the hash of the framed form
\* '<kind> <len>' NUL payload.
C3_WriteThenRead ==
    (session = "store" /\ op.name = "writeGitObject")
        => /\ op.hash = Sha1Hex(Framed(op.type, op.content))
           /\ ReadObject(FS, cwd, op.hash)
                = [status |-> "ok", type |-> op.type, content |-> op.content]

C3_Witness ==
    /\ session = "store" /\ op.name = "writeGitObject"
    /\ op.type = StrTag /\ op.content = <<102, 0>>
    /\ ReadObject(FS, cwd, op.hash).content = <<102, 0>>

\* the object files: .git/objects/<2 hex>/<38 hex> of the directory the store
\* commands run in, or of the clone
ObjectFiles ==
    { p \in DOMAIN files :
        /\ Len(p) >= 4
        /\ p[Len(p) - 3] = StrDotGit /\ p[Len(p) - 2] = StrObjects
        /\ Len(p[Len(p) - 1]) = 2 /\ Len(p[Len(p)]) = 38 }

\* C4: writing an object whose identity is in the store already is a no-op: a
\* second writeGitObject(kind, p) returns the identity the first returned, does
\* not fail, and leaves every file under .git/objects as it was.
C4_RewriteIsNoOp ==
    [][(op'.name = "writeGitObject" /\ nOps' = nOps + 1
        /\ Exists(FS, ObjectPath(cwd, Sha1Hex(Framed(op'.type, op'.content)))))
          => /\ op'.ok
             /\ op'.hash = Sha1Hex(Framed(op'.type, op'.content))
             /\ (op.name = "writeGitObject" /\ op.type = op'.type
                 /\ op.content = op'.content) => op'.hash = op.hash
             /\ \A p \in ObjectFiles : p \in DOMAIN files' /\ files'[p] = files[p]
             /\ files' = files /\ dirs' = dirs]_vars

C4_Witness ==
    /\ session = "store" /\ nOps = 2
    /\ op.name = "writeGitObject" /\ op.existed /\ op.ok
    /\ op.type = StrTag /\ op.content = <<102, 0>>

\* the bytes are the framed form of an object: '<kind> <len>' NUL payload
IsFramedForm(b) ==
    \E type \in Kinds :
        /\ StartsWith(b, type \o <<32>>)
        /\ IndexOf(b, 0, 0) # -1
        /\ b = Framed(type, SliceFrom(b, IndexOf(b, 0, 0) + 1))

\* the object file p of the files fl holds the deflated framed form of an object
\* whose hash is the 40 hex digits of its path
ObjectStored(fl, p) ==
    /\ Inflate(fl[p].data).ok
    /\ fl[p].data = Deflate(Inflate(fl[p].data).data)
    /\ IsFramedForm(Inflate(fl[p].data).data)
    /\ Sha1Hex(Inflate(fl[p].data).data) = p[Len(p) - 1] \o p[Len(p)]

\* C5: starting from an empty object store, after any sequence of object writes
\* (writeGitObject, writeBlobObject, write-tree, commit-tree, the objects the
\* pack decoder stores) every file .git/objects/<2 hex>/<38 hex> holds the
\* deflated framed form of an object whose hash is those 40 hex digits, and the
\* content stored under an identity never changes once it is written.
C5_StoreIsContentAddressed ==
    [][/\ \A p \in ObjectFiles' : ObjectStored(files', p)
       /\ \A p \in ObjectFiles : p \in DOMAIN files' /\ files'[p].data = files[p].data]_vars

C5_Witness ==
    /\ session = "store" /\ op.name = "commitTree" /\ Cardinality(ObjectFiles) >= 6
    /\ \A p \in ObjectFiles : ObjectStored(files, p)

\* the decoder of the pack is through
DecoderDone ==
    session = "clone" /\ pc \in {"branchref", "head", "checkout", "finish", "done"}

\* the objects of the remote's commit that its pack carries as REF_DELTA
DeltifiedObjects(r) ==
    { o \in { LayoutObjects(r.layout)[i] : i \in 1 .. Len(LayoutObjects(r.layout)) } :
        r.deltas = "all" \/ (r.deltas = "blobs" /\ o.type = StrBlob) }

\* the payload applyDelta makes of the base of the object's kind and the delta
\* the pack carries for the object
DeltaPayload(o) ==
    ApplyDelta(DeltaBase(o.type).content,
               DeltaFor(DeltaBase(o.type).content, o.content)).data

\* C9: when the pack stream holds a non-delta object X and after it a REF_DELTA
\* whose base identity is id(X), the decoder stores one more object, of X's kind
\* and with the payload applyDelta(payload(X), delta): the blob 'foo' and a
\* delta that copies all of it and inserts 'bar' leave a blob 'foobar'.
C9_RefDeltaStored ==
    (DecoderDone /\ packData = RemotePack(remote))
        => \A o \in DeltifiedObjects(remote) :
              /\ ReadObject(FS, TargetDir, ObjectId(DeltaBase(o.type).type, DeltaPayload(o)))
                   = [status |-> "ok", type |-> DeltaBase(o.type).type,
                      content |-> DeltaPayload(o)]
              /\ ObjectId(DeltaBase(o.type).type, DeltaPayload(o)) \in DOMAIN dec.written
              /\ dec.written[ObjectId(DeltaBase(o.type).type, DeltaPayload(o))]
                   = DeltaBase(o.type).type

C9_Witness ==
    /\ DecoderDone /\ packData = RemotePack(remote) /\ remote.deltas = "blobs"
    /\ [type |-> StrBlob, content |-> <<102, 111, 111, 98, 97, 114>>]
         \in DeltifiedObjects(remote)
    /\ DeltaFor(<<102, 111, 111>>, <<102, 111, 111, 98, 97, 114>>)
         = <<3, 6, 144, 3, 3, 98, 97, 114>>
    /\ ReadObject(FS, TargetDir, ObjectId(StrBlob, <<102, 111, 111, 98, 97, 114>>))
         = [status |-> "ok", type |-> StrBlob, content |-> <<102, 111, 111, 98, 97, 114>>]

\* C10: when the advertisement gives HEAD as a 40 hex identity with no symref,
\* cloneCommand goes on: it requests that commit, writes .git/HEAD as the 40
\* hex digits and a newline, creates no branch ref, and checks the commit out.
C10_DetachedHeadClones ==
    (session = "clone" /\ remote \in Remotes /\ remote.head = "detached"
     /\ pc \in {"done", "failed"})
        => /\ pc = "done"
           /\ headSha = HeadCommit(remote.layout)
           /\ FileData(TargetDir \o <<StrDotGit, StrHEAD>>)
                = HeadCommit(remote.layout) \o <<10>>
           /\ TargetDir \o <<StrDotGit>> \o SplitPath(StrMain) \notin DOMAIN files

\* applyDelta has run on a delta a packer made for the base
LegalDeltaApplied ==
    session = "delta" /\ pc = "applied" /\ fin.header = EncVarint(Len(fin.base))

\* C6: for every base B and every delta D whose header declares the source size
\* len(B) and the target size len(T) and whose body is a sequence of legal
\* copies (offset + size within B) and inserts (1 to 127 bytes) that describe
\* T, applyDelta(B, D) returns exactly T; a delta of inserts only returns the
\* inserted bytes.
C6_LegalDeltaGivesTarget ==
    LegalDeltaApplied
        => fout = [ok |-> TRUE, data |-> DeltaTarget(fin.base, fin.instrs)]

C6_Witness ==
    /\ LegalDeltaApplied /\ Len(fin.base) = LongBaseLen
    /\ Len(fin.instrs) = 2
    /\ fin.instrs[1] = [op |-> "copy", offset |-> 256, size |-> 3, bytes |-> <<>>]
    /\ fin.instrs[2].op = "insert"
    /\ fout.ok /\ Len(fout.data) = 6

RECURSIVE VarintGroups(_, _)
\* the 7-bit groups of the size header that starts at byte i, the low group
\* first, up to the first byte without the high bit
VarintGroups(bytes, i) ==
    IF i > Len(bytes) THEN <<>>
    ELSE <<bytes[i] % 128>>
         \o (IF bytes[i] >= 128 THEN VarintGroups(bytes, i + 1) ELSE <<>>)

RECURSIVE StripZeroGroups(_)
\* the groups without the zero groups at the high end: two headers declare the
\* same size exactly when these are equal
StripZeroGroups(groups) ==
    IF groups # <<>> /\ groups[Len(groups)] = 0
    THEN StripZeroGroups(SubSeq(groups, 1, Len(groups) - 1))
    ELSE groups

\* the source size the delta declares is the length of the base
DeclaresLengthOf(delta, base) ==
    StripZeroGroups(VarintGroups(delta, 1))
        = StripZeroGroups(VarintGroups(EncVarint(Len(base)), 1))

\* C7: applyDelta(B, D) fails with a delta error and returns no content
\* whenever the source size declared at the start of D is not len(B).
C7_SourceSizeMismatchFails ==
    (session = "delta" /\ pc = "applied" /\ ~DeclaresLengthOf(fin.delta, fin.base))
        => ~fout.ok

C11_ExistingTargetFailsFirst ==
    [][/\ pc # "failed"
       /\ (session = "clone" /\ pc = "start" /\ TargetDir \in dirs)
              => (pc' = "failed" /\ files' = files /\ dirs' = dirs /\ cwd' = cwd
                  /\ refs' = refs /\ packData' = packData)]_vars

C11_Witness ==
    /\ session = "clone" /\ pc = "failed"
    /\ dirs = {Root, TargetDir} /\ files = NoFiles
    /\ refs = EmptyRefs /\ packData = <<>>
    /\ remote.getStatus = 200 /\ remote.postStatus = 200

\* .git/HEAD of the clone
HeadPath ==
    TargetDir \o <<StrDotGit, StrHEAD>>

\* the files below .git/refs of the clone
RefFiles ==
    { p \in DOMAIN files :
        Len(p) >= 3 /\ p[1] = TargetDir[1] /\ p[2] = StrDotGit /\ p[3] = StrRefs }

\* this step of the clone writes a pack object to the store
WritesPackObject ==
    session = "clone" /\ (ObjectFiles' # ObjectFiles \/ dec'.written # dec.written)

\* C12 as stated: within one clone every write of a pack object to the store
\* happens before any ref, branch ref file or HEAD, is written: when a pack
\* object is written there is no HEAD and no ref file yet.
C12_ObjectsBeforeAnyRef ==
    [][WritesPackObject => (HeadPath \notin DOMAIN files /\ RefFiles = {})]_vars

\* C12: within one clone, once the repository is initialised with its first
\* HEAD ('ref: refs/heads/main'), every write of a pack object happens before
\* the branch ref file is written and before HEAD is written again: objects are
\* written only by the decoder, with no ref file there and HEAD as init left
\* it, and the steps that write the branch ref and HEAD come when the decoder
\* has finished and write no object.
C12_ObjectsBeforeCloneRefs ==
    [][/\ WritesPackObject
            => /\ pc = "objects"
               /\ RefFiles = {} /\ RefFiles' = {}
               /\ FileData(HeadPath) = StrHeadInit
               /\ HeadPath \in DOMAIN files' /\ files'[HeadPath] = files[HeadPath]
       /\ (session = "clone" /\ pc \in {"branchref", "head"})
            => /\ ~PackLoopRuns(packData, ReadUInt32BE(packData, 8), dec)
               /\ ObjectFiles' = ObjectFiles /\ dec' = dec]_vars

\* the decoder has stored the objects of a pack and the branch ref is about to
\* be written
C12_Witness ==
    /\ session = "clone" /\ pc = "branchref"
    /\ Cardinality(ObjectFiles) >= 4 /\ Cardinality(DOMAIN dec.written) >= 4
    /\ RefFiles = {} /\ FileData(HeadPath) = StrHeadInit

\* the branch ref file of the clone
BranchRefPath ==
    TargetDir \o <<StrDotGit>> \o SplitPath(defaultBranchRef)

\* nothing of the working tree is there: no file and no directory of the clone
\* outside .git
WorktreeEmpty ==
    /\ \A p \in DOMAIN files : (Len(p) >= 2 /\ p[1] = TargetDir[1]) => p[2] = StrDotGit
    /\ \A d \in dirs : (Len(d) >= 2 /\ d[1] = TargetDir[1]) => d[2] = StrDotGit

\* C13: within one clone the default branch ref file is written before HEAD is
\* pointed at the branch, and both are written before checkout writes its first
\* file or directory of the working tree: the step that writes HEAD finds the
\* branch ref file with the commit in it, no step before the checkout leaves
\* anything in the working tree, and the checkout finds both files written and
\* leaves them alone.  A write of the branch ref that throws writes nothing.
C13_BranchRefThenHeadThenCheckout ==
    [][session = "clone" =>
         CASE pc = "branchref" ->
                \/ pc' = "failed" /\ files' = files /\ dirs' = dirs
                \/ /\ pc' = "head" /\ WorktreeEmpty'
                   /\ BranchRefPath \in DOMAIN files'
                   /\ files'[BranchRefPath].data = headSha \o <<10>>
           [] pc = "head" ->
                /\ pc' = "checkout" /\ WorktreeEmpty'
                /\ defaultBranchRef # <<>>
                /\ FileData(BranchRefPath) = headSha \o <<10>>
                /\ files'[BranchRefPath] = files[BranchRefPath]
                /\ files'[HeadPath].data = StrRefPrefix \o defaultBranchRef \o <<10>>
           [] pc = "checkout" ->
                /\ WorktreeEmpty
                /\ FileData(BranchRefPath) = headSha \o <<10>>
                /\ FileData(HeadPath) = StrRefPrefix \o defaultBranchRef \o <<10>>
                /\ files'[BranchRefPath] = files[BranchRefPath]
                /\ files'[HeadPath] = files[HeadPath]
           [] pc = "finish" -> files' = files /\ dirs' = dirs
           [] OTHER -> WorktreeEmpty']_vars

\* the checkout has written a file below a directory after both refs
C13_Witness ==
    /\ session = "clone" /\ pc = "finish"
    /\ <<StrSubdir, <<98>> >> \in DOMAIN Worktree
    /\ <<StrSubdir>> \in WorktreeDirs
    /\ FileData(BranchRefPath) = headSha \o <<10>>
    /\ FileData(HeadPath) = StrRefPrefix \o StrMain \o <<10>>

(***************************************************************************)
(* The pack decoders, entry by entry                                       *)
(***************************************************************************)

RECURSIVE EntriesLen(_, _)
\* the length of the first k entries of the pack of the entries items
EntriesLen(items, k) ==
    IF k = 0 THEN 0 ELSE EntriesLen(items, k - 1) + Len(ItemEntry(items[k]))

\* the offset of entry k of the pack (the offset of the trailer for k past the
\* last entry)
EntryStart(k) ==
    12 + EntriesLen(fin.items, k - 1)

\* the loop of a decoder is about to read entry k of the pack, at its first byte
AtItem(k) ==
    /\ session = "unpack" /\ pc = "objects"
    /\ k \in 1 .. Len(fin.items)
    /\ dec.objectsProcessed = k - 1
    /\ dec.offset = EntryStart(k)
    /\ ~dec.stopped

\* the object a REF_DELTA entry names as its base
ItemBase(item) ==
    IF item = "delta" THEN ObjectId(StrBlob, SampleContents[2]) ELSE ObjectId(StrBlob, <<120>>)

\* the object the entry "delta" stands for, and the one "orphan" stands for
DeltaTargetPath ==
    ObjectPath(Root, ObjectId(StrBlob, SampleContents[3]))

OrphanTargetPath ==
    ObjectPath(Root, ObjectId(StrBlob, <<120, 121>>))

\* C14: both decoders take the entries in stream order. A REF_DELTA whose base
\* is not in the object store when the entry is read, be it in no pack or later
\* in this pack, is skipped: the step writes nothing, leaves the cursor at the
\* next entry and the loop running; and the object it stands for is written
\* only by the step of a delta entry that finds its base in the store.
C14_MissingBaseSkipped ==
    [][/\ \A k \in 1 .. MaxPackItems + 1 :
            (/\ AtItem(k)
             /\ fin.items[k] \in {"delta", "orphan"}
             /\ ReadObject(FS, cwd, ItemBase(fin.items[k])).status # "ok")
            => (/\ files' = files /\ dirs' = dirs
                /\ dec'.written = dec.written
                /\ dec'.offset = EntryStart(k + 1)
                /\ dec'.objectsProcessed = k
                /\ ~dec'.stopped
                /\ pc' = "objects")
       /\ session = "unpack"
          => (/\ OrphanTargetPath \notin DOMAIN files'
              /\ (DeltaTargetPath \notin DOMAIN files /\ DeltaTargetPath \in DOMAIN files')
                 => (/\ ReadObject(FS, cwd, ItemBase("delta")).status = "ok"
                     /\ \E k \in 1 .. MaxPackItems + 1 :
                           AtItem(k) /\ fin.items[k] = "delta"))]_vars

\* a pack whose delta comes before its base has been decoded to the end: the
\* base is stored, the object of the delta is not
C14_Witness ==
    /\ session = "unpack" /\ pc = "unpacked"
    /\ fin.items = <<"delta", "blob">>
    /\ fout.returned
    /\ dec.objectsProcessed = 2
    /\ ObjectPath(Root, ObjectId(StrBlob, SampleContents[2])) \in DOMAIN files
    /\ DeltaTargetPath \notin DOMAIN files
    /\ Cardinality(ObjectFiles) = 1

\* C15: an entry of an unknown type (0 or 5) is fatal: once the decoder has met
\* it the clone aborts, and writes no ref file and nothing of the working tree.
C15_UnknownTypeIsFatal ==
    (session = "clone" /\ remote.fault = "unknownType" /\ dec.stopped)
        => /\ pc \in {"objects", "failed"}
           /\ RefFiles = {}
           /\ WorktreeEmpty

\* the step of the decoder that runs
DecoderStep(decoder, F, pack, st) ==
    IF decoder = "clone" THEN PackObjectStep(F, Root, pack, ReadUInt32BE(pack, 8), st)
    ELSE UtilsObjectStep(F, Root, pack, ReadUInt32BE(pack, 8), st)

RECURSIVE DecodeAll(_, _, _, _)
\* the loop of a decoder run to its end on the pack, from the store F and the
\* loop state st
DecodeAll(decoder, F, pack, st) ==
    IF ~PackLoopRuns(pack, ReadUInt32BE(pack, 8), st) THEN [F |-> F, st |-> st]
    ELSE Let1(DecoderStep(decoder, F, pack, st), LAMBDA r :
              DecodeAll(decoder, r.F, pack, r.st))

\* what the decoder that runs leaves of the same entries with the right trailer
WithRightTrailer ==
    DecodeAll(fin.decoder, EmptyRepository, ItemsPack(fin.items), PackInitState)

\* C16: a trailer that is not the checksum of the pack is a warning only:
\* processPackfile returns normally, and the store and the set of written
\* objects it returns are those of the same pack with the right trailer.
C16_BadTrailerOnlyWarns ==
    (session = "unpack" /\ pc = "unpacked" /\ ~fin.goodTrailer)
        => /\ fout.returned
           /\ ~fout.checksumOk
           /\ fout.written = WithRightTrailer.st.written
           /\ FS = WithRightTrailer.F

\* a pack of a blob and a delta on it with a wrong trailer has been decoded:
\* both objects are in the store
C16_Witness ==
    /\ session = "unpack" /\ pc = "unpacked"
    /\ ~fin.goodTrailer
    /\ fin.items = <<"blob", "delta">>
    /\ fout.returned /\ ~fout.checksumOk
    /\ DOMAIN fout.written
         = {ObjectId(StrBlob, SampleContents[2]), ObjectId(StrBlob, SampleContents[3])}
    /\ Cardinality(ObjectFiles) = 2

\* the blob 'foo' of the entry "blob" in the store
FooPath ==
    ObjectPath(Root, ObjectId(StrBlob, SampleContents[2]))

\* C17: an OFS_DELTA entry is skipped: the step writes nothing and leaves the
\* cursor after the header and exactly the compressed bytes of the entry, that
\* is at the next entry, with the loop running; so a non-delta object after it
\* in the pack is still stored.
C17_OfsDeltaSkipped ==
    [][/\ \A k \in 1 .. MaxPackItems + 1 :
            (AtItem(k) /\ fin.items[k] = "ofs")
            => (/\ files' = files /\ dirs' = dirs
                /\ dec'.written = dec.written
                /\ dec'.offset = EntryStart(k + 1)
                /\ dec'.objectsProcessed = k
                /\ ~dec'.stopped)
       /\ (/\ session = "unpack" /\ pc' = "unpacked"
           /\ \A i \in 1 .. Len(fin.items) : fin.items[i] \in {"ofs", "blob"}
           /\ \E i \in 1 .. Len(fin.items) : fin.items[i] = "blob")
          => FooPath \in DOMAIN files']_vars

\* C18: a non-delta entry whose inflated length is not its declared size,
\* the declared size 0 with a non-empty body included, is skipped: the step
\* writes no object, leaves the cursor at the next entry and the loop running.
C18_SizeMismatchSkipped ==
    [][\A k \in 1 .. MaxPackItems + 1 :
          (AtItem(k) /\ fin.items[k] \in {"short", "zero"})
          => (/\ files' = files /\ dirs' = dirs
              /\ dec'.written = dec.written
              /\ dec'.offset = EntryStart(k + 1)
              /\ dec'.objectsProcessed = k
              /\ ~dec'.stopped)]_vars

\* C19: the pack requestPackfile hands to the decoder is the concatenation, in
\* order, of all the band-1 payloads of the response from the one that begins
\* with 'PACK' on, that is the pack the remote sent: no byte of a later payload
\* is dropped, also when that payload holds 'PACK' at a non-zero position.
C19_PackIsBand1Concatenation ==
    (session = "clone" /\ pc = "unpack" /\ remote.fault # "band3")
        => packData = RemotePack(remote)

\* C20: a band-3 record ends the stream: no band-1 payload after it is appended
\* to the pack. Of a response with an error record after the first band-1
\* packet of the pack, what is extracted is no more than that first packet.
C20_ErrorBandEndsStream ==
    (session = "clone" /\ remote.fault = "band3" /\ packData # <<>>)
        => packData = SubSeq(RemotePack(remote), 1, ChunkSize)

\* the advertisement holds a record of the kind item
HasRecord(item) ==
    \E i \in 1 .. Len(fin.records) : fin.records[i] = item

\* C21: the decoder of the ref advertisement fails on every record whose
\* length field is not hexadecimal, is between 1 and 3, or is more than the
\* bytes left in the buffer: of an advertisement with such a record it never
\* returns a ref map.
C21_MalformedLengthFails ==
    (session = "adv" /\ pc = "parsed"
     /\ (HasRecord("badhex") \/ HasRecord("tiny") \/ HasRecord("long")))
        => ~fout.ok

\* the symref pairs of the capability list of a first line: name |-> target
SymrefPairs(item) ==
    CASE item = "first1" -> (StrHEAD :> StrMain)
      [] item = "first2" -> (StrHEAD :> StrMain) @@ (StrOther :> StrMain)
      [] OTHER -> EmptyRefs

\* C22: for each pair symref=<name>:<target> of the capability list of the
\* first advertised ref line, not only the first pair, the ref map returned has
\* the entry name -> 'ref: <target>'.
C22_EverySymrefRecorded ==
    (/\ session = "adv" /\ pc = "parsed"
     /\ Len(fin.records) >= 1
     /\ ~(HasRecord("badhex") \/ HasRecord("tiny") \/ HasRecord("long")))
        => /\ fout.ok
           /\ \A name \in DOMAIN SymrefPairs(fin.records[1]) :
                 /\ name \in DOMAIN fout.refs
                 /\ fout.refs[name] = StrRefPrefix \o SymrefPairs(fin.records[1])[name]

\* the object is in the store of the clone
InStore(type, content) ==
    ObjectPath(TargetDir, ObjectId(type, content)) \in DOMAIN files

\* the files of the layout whose blob is in the store and whose directory's
\* tree is in the store
UsableFiles(L) ==
    { i \in 1 .. L.n :
        /\ InStore(StrBlob, LayoutFile(L, i).content)
        /\ LayoutFile(L, i).dir # <<>> => InStore(StrTree, SubTreePayload(L)) }

\* the files of the commit that can be materialized from the store
UsableExpectedFiles(L) ==
    [p \in { LayoutFile(L, i).dir \o <<LayoutFile(L, i).name>> : i \in UsableFiles(L) } |->
        ExpectedFiles(L)[p]]

\* C23: a tree entry whose tree or blob is not in the store is skipped and the
\* checkout goes on: when the commit and its tree are in the store, the clone
\* returns with the checkout not aborted and with exactly the files of the
\* commit whose objects are in the store.
C23_MissingEntrySkipped ==
    (/\ CloneReturned
     /\ InStore(StrCommit, CommitPayload(remote.layout))
     /\ InStore(StrTree, RootTreePayload(remote.layout))
     /\ headSha = HeadCommit(remote.layout))
        => /\ ~checkoutThrew
           /\ Worktree = UsableExpectedFiles(remote.layout)

\* a clone from a remote whose pack lacks the blob of the file a has returned:
\* the file d/b, whose entry comes after the one of a, is there
C23_Witness ==
    /\ CloneReturned
    /\ remote.fault = "noBlob1"
    /\ ~InStore(StrBlob, LayoutFile(remote.layout, 1).content)
    /\ InStore(StrTree, RootTreePayload(remote.layout))
    /\ DOMAIN Worktree = {<<StrSubdir, <<98>> >>}
    /\ Worktree[<<StrSubdir, <<98>> >>].data = LayoutFile(remote.layout, 2).content

\* every instruction of the delta is legal
AllLegal(instrs) ==
    \A i \in 1 .. Len(instrs) : instrs[i] \in {"copy", "insert"}

\* C24: applyDelta returns a buffer of exactly the target size the delta
\* declares, made of the bytes of its copies and inserts, or it fails; it
\* fails when the instructions give fewer or more bytes than the declared
\* size, when a copy lies outside the base, when an insert runs past the end of
\* the delta and when an insert has size 0.
C24_TargetSizeExactOrFails ==
    (session = "rawdelta" /\ pc = "applied")
        => IF AllLegal(fin.instrs) /\ fin.declared = "exact"
           THEN fout = [ok |-> TRUE, data |-> RawTarget(fin.base, fin.instrs)]
           ELSE ~fout.ok

RECURSIVE BytesLess(_, _)
\* a before b in the bytewise order, a prefix first
BytesLess(a, b) ==
    IF b = <<>> THEN FALSE
    ELSE IF a = <<>> THEN TRUE
    ELSE IF Head(a) # Head(b) THEN Head(a) < Head(b)
    ELSE BytesLess(Tail(a), Tail(b))

RECURSIVE EntryNames(_, _)
\* the names of the entries `mode name NUL sha` of a tree from offset on
EntryNames(treeContent, offset) ==
    IF offset >= Len(treeContent) THEN <<>>
    ELSE LET spaceIndex == IndexOf(treeContent, 32, offset)
             nullIndex == IndexOf(treeContent, 0, spaceIndex + 1)
         IN  <<Slice(treeContent, spaceIndex + 1, nullIndex)>>
             \o EntryNames(treeContent, nullIndex + 1 + 20)

\* the names of the tree stored in the object file p
StoredTreeNames(p) ==
    EntryNames(ReadObject(FS, Root, p[Len(p) - 1] \o p[Len(p)]).content, 0)

\* C25: write-tree serializes the entries of every tree it writes in the
\* bytewise order of their names, for every set of names, names that mix
\* upper-case and lower-case letters included.
C25_TreeEntriesBytewise ==
    (session = "tree" /\ pc = "written")
        => \A p \in ObjectFiles :
              ReadObject(FS, Root, p[Len(p) - 1] \o p[Len(p)]).type = StrTree
              => \A i \in 1 .. Len(StoredTreeNames(p)) - 1 :
                    BytesLess(StoredTreeNames(p)[i], StoredTreeNames(p)[i + 1])

\* what the decoder that did not run leaves of the same pack
OtherDecoder ==
    DecodeAll(IF fin.decoder = "clone" THEN "utils" ELSE "clone",
              EmptyRepository, packData, PackInitState)

\* C26: the two pack decoders are equivalent: on the same pack and the same
\* store, processPackfile of clone.js and processPackfile of repositoryUtils.js
\* leave the same objects in the store and return the same map of written
\* identities to kinds.
C26_DecodersEquivalent ==
    (session = "unpack" /\ pc = "unpacked")
        => /\ FS = OtherDecoder.F
           /\ fout.written = OtherDecoder.st.written

\* the response has the signature 'PACK' somewhere
HasPackSignature ==
    IndexOfSeq(ResponseBuffer(fin), StrPACK, 0) # -1

\* C27: the extraction of the pack comes to an end for every response body, in
\* the scan for the server's messages when the signature 'PACK' is absent and
\* in the main loop when it is present, also when a length field is not '0000'
\* but parses to 0 or to a negative number: it resolves or rejects.
C27_ExtractionTerminates ==
    (session = "extract" /\ pc = "extracted") => fout.status \in {"ok", "reject"}

\* the clone has written the branch ref (when there is a default branch) and HEAD
RefsWritten ==
    /\ HeadPath \in DOMAIN files
    /\ files[HeadPath].data = HeadFileContent(defaultBranchRef, headSha)
    /\ defaultBranchRef # <<>>
         => /\ BranchRefPath \in DOMAIN files
            /\ files[BranchRefPath].data = headSha \o <<10>>

\* C28: a checkout that fails as a whole (the commit is not in the store, the
\* object HEAD names is not a commit, the commit has no tree line, or a tree
\* names as a directory an object that is not a tree) does not fail the clone:
\* the clone of such a remote never throws, its checkout ends in the catch
\* block, and from then on the branch ref and HEAD are written and
\* cloneCommand returns.
C28_CheckoutFailureTolerated ==
    /\ (session = "clone" /\ remote \in BrokenRemotes) => pc # "failed"
    /\ (session = "clone" /\ remote \in BrokenRemotes /\ pc \in {"finish", "done"})
         => checkoutThrew
    /\ (session = "clone" /\ checkoutThrew) => pc \in {"finish", "done"} /\ RefsWritten

\* the clone of the remote whose root tree lists a blob as the directory d has
\* returned: the checkout wrote the file a, then threw
C28_Witness ==
    /\ CloneReturned /\ checkoutThrew /\ RefsWritten
    /\ remote.fault = "blobAsTree" /\ remote.head = "symbolic"
    /\ DOMAIN Worktree = {<< <<97>> >>}

\* C29: cloneCommand writes nothing before the ref discovery has succeeded and
\* a target commit of 40 hex digits is determined: every step of a clone that
\* creates or changes a file or a directory is taken after a 200 answer to the
\* GET, with the refs parsed and the target commit resolved.  A clone that
\* fails before leaves the target directory uncreated.
C29_NoWriteBeforeTarget ==
    [][(session = "clone" /\ (files' # files \/ dirs' # dirs))
          => /\ remote.getStatus = 200
             /\ refs # EmptyRefs
             /\ IsSha40(headSha)
             /\ pc \notin {"start", "discover", "resolve"}]_vars

\* a clone has failed on a HEAD that does not resolve to a commit: the refs
\* are discovered, nothing is written
C29_Witness ==
    /\ session = "clone" /\ pc = "failed"
    /\ remote.getStatus = 200 /\ remote.head = "detached"
    /\ refs # EmptyRefs /\ headSha = <<>>
    /\ files = NoFiles /\ dirs = {Root}

\* the clone is between process.chdir(targetDir) and the end of the try block
InsideTarget ==
    session = "clone"
    /\ pc \in {"init", "request", "unpack", "objects", "branchref", "head", "checkout",
               "finish"}

\* C30: once cloneCommand has changed into the target directory it goes back
\* to the original working directory before it returns or throws, on every
\* path (success, failure of the pack request, failure to decode the pack,
\* failure to write the branch ref): inside the try block the working
\* directory is the target directory, and when cloneCommand has returned or
\* thrown it is the original one.
C30_CwdRestored ==
    /\ InsideTarget => cwd = TargetDir
    /\ (session = "clone" /\ pc \in {"done", "failed"}) => cwd = Root

\* the clone has thrown on the write of the branch ref, after it had changed
\* into the target directory and initialised the repository there
C30_Witness ==
    /\ session = "clone" /\ pc = "failed" /\ cwd = Root
    /\ remote.fault = "refIsDir"
    /\ TargetDir \o <<StrDotGit, StrObjects>> \in dirs
    /\ packData # <<>>

====
